---- MODULE Spec2Model ----
(***************************************************************************)
(* Live Results Dashboard backend (src/backend/src/app.py): the time       *)
(* helpers, the state processor _process, the diff engine _diff, the       *)
(* ConnectionManager (connect / disconnect / broadcast), the websocket     *)
(* endpoint and the fetch loop, as one state machine.                      *)
(*                                                                         *)
(* Python values are represented as follows.                               *)
(*   str that the code takes apart (durations, distance titles):           *)
(*       a sequence of one-character strings, "" being << >>               *)
(*   str that the code only copies and compares (ids, names, lanes):       *)
(*       a TLA+ string                                                     *)
(*   None / optional scalar:  None == << >>,  a present value v is <<v>>   *)
(*   dict: [order |-> the keys in insertion order, map |-> key -> value];  *)
(*       Python's == on dicts ignores the order, so dicts are compared by  *)
(*       their map                                                         *)
(*   float seconds: an integer number of milliseconds                      *)
(***************************************************************************)
EXTENDS Integers, Sequences, FiniteSets, TLC

None == << >>
Some(v) == <<v>>

Get(rec, key, default) == IF key \in DOMAIN rec THEN rec[key] ELSE default

EmptyDict == [order |-> << >>, map |-> << >>]

DictHas(d, k) == \E i \in 1..Len(d.order) : d.order[i] = k

\* d[k] = v : a new key goes last, an existing key keeps its place
DictSet(d, k, v) ==
    IF DictHas(d, k)
    THEN [order |-> d.order,
          map |-> [x \in DOMAIN d.map |-> IF x = k THEN v ELSE d.map[x]]]
    ELSE [order |-> Append(d.order, k),
          map |-> [x \in (DOMAIN d.map) \cup {k} |-> IF x = k THEN v ELSE d.map[x]]]

\* d.get(k): Some(value) or None
DictGet(d, k) == IF DictHas(d, k) THEN Some(d.map[k]) ELSE None

\* the values of d from the last key to the first
DictValuesReversed(d) == [i \in 1..Len(d.order) |-> d.map[d.order[Len(d.order) + 1 - i]]]

\* d.values(), in insertion order
DictValues(d) == [i \in 1..Len(d.order) |-> d.map[d.order[i]]]

(***************************************************************************)
(* Characters and strings                                                  *)
(***************************************************************************)

\* the characters the model's strings use, in code-point order
Alphabet ==
    <<" ", ".", "0", "1", "2", "3", "4", "5", "6", "7", "8", "9", ":",
      "L", "M", "a", "d", "e", "l", "m", "n", "o", "p", "r", "s", "t">>

Ord(c) == CHOOSE i \in 1..Len(Alphabet) : Alphabet[i] = c

Digits == {"0", "1", "2", "3", "4", "5", "6", "7", "8", "9"}

DigitVal(c) == Ord(c) - Ord("0")

DigitChar(n) == Alphabet[Ord("0") + n]

\* re.IGNORECASE
Lower(c) == CASE c = "L" -> "l" [] c = "M" -> "m" [] OTHER -> c

\* Python's < on str
RECURSIVE StrLess(_, _)
StrLess(a, b) ==
    IF b = << >> THEN FALSE
    ELSE IF a = << >> THEN TRUE
    ELSE IF a[1] = b[1] THEN StrLess(Tail(a), Tail(b))
    ELSE Ord(a[1]) < Ord(b[1])

\* s.find(c): the first index of c (1-based), 0 when absent
Find(s, c) ==
    IF \E i \in 1..Len(s) : s[i] = c
    THEN CHOOSE i \in 1..Len(s) : s[i] = c /\ \A j \in 1..(i - 1) : s[j] # c
    ELSE 0

\* s.split(c)
RECURSIVE Split(_, _)
Split(s, c) ==
    LET k == Find(s, c)
    IN  IF k = 0 THEN <<s>>
        ELSE <<SubSeq(s, 1, k - 1)>> \o Split(SubSeq(s, k + 1, Len(s)), c)

\* c.join(parts)
RECURSIVE Join(_, _)
Join(parts, c) ==
    IF parts = << >> THEN << >>
    ELSE IF Len(parts) = 1 THEN parts[1]
    ELSE parts[1] \o <<c>> \o Join(Tail(parts), c)

\* s unchanged
KeepZeros(s) == s

\* s.lstrip("0")
RECURSIVE LStripZeros(_)
LStripZeros(s) ==
    IF s # << >> /\ s[1] = "0" THEN LStripZeros(Tail(s)) ELSE s

\* int(s) of a string of decimal digits (int("") and non-digits raise in
\* the code; the callers' contract excludes them)
RECURSIVE IntOf(_)
IntOf(s) ==
    IF s = << >> THEN 0
    ELSE 10 * IntOf(SubSeq(s, 1, Len(s) - 1)) + DigitVal(s[Len(s)])

\* str(n) for n >= 0
RECURSIVE StrOf(_)
StrOf(n) ==
    IF n < 10 THEN <<DigitChar(n)>>
    ELSE StrOf(n \div 10) \o <<DigitChar(n % 10)>>

(***************************************************************************)
(* Time helpers                                                            *)
(***************************************************************************)

\* float(s) of "SS" or "SS.f..", in milliseconds (exact for up to three
\* fractional digits)
MillisOf(s) ==
    LET dot == Find(s, ".")
        int_part == IF dot = 0 THEN s ELSE SubSeq(s, 1, dot - 1)
        frac == IF dot = 0 THEN << >> ELSE SubSeq(s, dot + 1, Len(s))
        frac3 == SubSeq(frac \o <<"0", "0", "0">>, 1, 3)
    IN  IntOf(int_part) * 1000 + IntOf(frac3)

\* _parse_seconds, in milliseconds
SecondsOfParts(parts) ==
    IF Len(parts) = 3
    THEN IntOf(parts[1]) * 3600000 + IntOf(parts[2]) * 60000 + MillisOf(parts[3])
    ELSE IF Len(parts) = 2
    THEN IntOf(parts[1]) * 60000 + MillisOf(parts[2])
    ELSE MillisOf(parts[1])

ParseSeconds(t) == IF t = << >> THEN 0 ELSE SecondsOfParts(Split(t, ":"))

\* the loop body of _format_time from part i on; found is found_nonzero
RECURSIVE FormatParts(_, _, _)
FormatParts(colon_parts, i, found) ==
    LET part == colon_parts[i]
        is_last == i = Len(colon_parts)
        dot == Find(part, ".")
    IN  IF is_last
        THEN IF dot # 0
             THEN LET raw_int == SubSeq(part, 1, dot - 1)
                      rest == SubSeq(part, dot + 1, Len(part))
                      dec_part == SubSeq(rest, 1, IF Len(rest) < 3 THEN Len(rest) ELSE 3)
                      stripped == LStripZeros(raw_int)
                      int_part == IF found THEN raw_int
                                  ELSE IF stripped = << >> THEN <<"0">> ELSE stripped
                  IN  <<int_part \o <<".">> \o dec_part>>
             ELSE LET stripped == LStripZeros(part)
                  IN  <<IF found THEN part
                        ELSE IF stripped = << >> THEN <<"0">> ELSE stripped>>
        ELSE LET num == IntOf(part)
             IN  IF ~found /\ num = 0
                 THEN FormatParts(colon_parts, i + 1, found)
                 ELSE <<StrOf(num)>> \o FormatParts(colon_parts, i + 1, TRUE)

\* _format_time
FormatTime(t) ==
    IF t = << >> THEN << >>
    ELSE Join(FormatParts(Split(t, ":"), 1, FALSE), ":")

Abs(x) == IF x < 0 THEN -x ELSE x

\* the value _time_diff returns when either time is missing, in milliseconds
NoTimeDiff == 9999000

\* _time_diff, in milliseconds
TimeDiff(a, b) ==
    IF a = << >> \/ b = << >> THEN NoTimeDiff
    ELSE Abs(ParseSeconds(a) - ParseSeconds(b))

\* float(s) is the binary64 number nearest to s, and _time_diff subtracts
\* two of them.  For a time of ms milliseconds, from one second up and below
\* one minute (the hours and the minutes add nothing), ms/1000 lies in
\* [2^e, 2^(e+1)) and float rounds it to a multiple of 2^(e-52).

RECURSIVE Binade(_)
Binade(ms) == IF ms < 2000 THEN 0 ELSE 1 + Binade(ms \div 2)

RECURSIVE Pow2(_)
Pow2(k) == IF k = 0 THEN 1 ELSE 2 * Pow2(k - 1)

\* 2^k mod 1000
RECURSIVE Pow2Mod1000(_)
Pow2Mod1000(k) == IF k = 0 THEN 1 ELSE (2 * Pow2Mod1000(k - 1)) % 1000

\* what is left of ms * 2^(52-e) / 1000 after its whole part (never a half)
FloatRemainder(ms, e) == ((ms % 1000) * Pow2Mod1000(52 - e)) % 1000

\* the rounding to nearest: down by r below a half, up by 1000 - r above it
FloatErrorAt(e, r) == Pow2(e) * (IF r < 500 THEN -r ELSE 1000 - r)

\* float(s) - s for s = ms/1000, in units of 2^-52 / 1000
FloatError(ms) == FloatErrorAt(Binade(ms), FloatRemainder(ms, Binade(ms)))

\* abs(x - y) of the floats of lo <= hi milliseconds is above the decimal
\* difference; the floats being no more than a factor two apart, their
\* difference is a binary64 number and is not rounded again
FloatDiffAbove(lo, hi) == FloatError(hi) > FloatError(lo)

\* _time_diff(a, b) is above the difference of the decimal times a and b
TimeDiffAbove(a, b) ==
    IF ParseSeconds(a) <= ParseSeconds(b)
    THEN FloatDiffAbove(ParseSeconds(a), ParseSeconds(b))
    ELSE FloatDiffAbove(ParseSeconds(b), ParseSeconds(a))

(***************************************************************************)
(* _process: the title patterns                                            *)
(***************************************************************************)

IsDigit(c) == c \in Digits

\* \s
IsSpace(c) == c = " "

\* \w
IsWordChar(c) == c \notin {" ", ".", ":"}

\* the word w stands at position p of s, ignoring case
WordAt(s, p, w) ==
    /\ p + Len(w) - 1 <= Len(s)
    /\ \A k \in 1..Len(w) : Lower(s[p + k - 1]) = w[k]

\* (?:laps?|ronden?|rondes?) at position p
LapsWordAt(s, p) ==
    \/ WordAt(s, p, <<"l", "a", "p">>)
    \/ WordAt(s, p, <<"r", "o", "n", "d", "e">>)

\* (?:m\b|meter) at position p
MetersWordAt(s, p) ==
    \/ /\ WordAt(s, p, <<"m">>)
       /\ (p = Len(s) \/ ~IsWordChar(s[p + 1]))
    \/ WordAt(s, p, <<"m", "e", "t", "e", "r">>)

\* the unit word of the pattern for laps or of the one for meters at position p
UnitAt(s, p, unit) == IF unit = "laps" THEN LapsWordAt(s, p) ELSE MetersWordAt(s, p)

\* (\d+)\s*<word> matches s with the digits at i..j
NumberThenWord(s, i, j, unit) ==
    /\ i <= j
    /\ \A k \in i..j : IsDigit(s[k])
    /\ \E p \in (j + 1)..Len(s) :
          /\ \A k \in (j + 1)..(p - 1) : IsSpace(s[k])
          /\ UnitAt(s, p, unit)

\* re.search(...): the leftmost match, its digits taken greedily;
\* Some(int(m.group(1))) or None
MinOf(S) == CHOOSE x \in S : \A y \in S : x <= y

MaxOf(S) == CHOOSE x \in S : \A y \in S : y <= x

\* m.group(1) of the match whose digits start at i and end at j
GroupAt(s, i, j) == Some(IntOf(SubSeq(s, i, j)))

\* the match that starts at i: the longest run of digits the word follows
MatchFrom(s, unit, i) ==
    GroupAt(s, i, MaxOf({j \in i..Len(s) : NumberThenWord(s, i, j, unit)}))

\* the match at the leftmost of the positions a match starts at
LeftmostMatch(s, unit, starts) ==
    IF starts = {} THEN None ELSE MatchFrom(s, unit, MinOf(starts))

SearchNumber(s, unit) ==
    LeftmostMatch(s, unit,
        {i \in 1..Len(s) : \E j \in i..Len(s) : NumberThenWord(s, i, j, unit)})

(***************************************************************************)
(* _process: one distance                                                  *)
(***************************************************************************)

\* a classification that takes two races in one heat for a mass start
IsMassStartFromTwo(races) ==
    /\ Len(races) >= 2
    /\ Cardinality({races[i].heat : i \in 1..Len(races)}) = 1

\* "mass start: >2 races all in same heat"
IsMassStart(races) ==
    /\ Len(races) > 2
    /\ Cardinality({races[i].heat : i \in 1..Len(races)}) = 1

\* sorted(laps, key=lambda l: l["time"])[-1]["time"]
LatestOf(times) == CHOOSE t \in times : \A u \in times : ~StrLess(t, u)

MaxLapTime(laps) == LatestOf({laps[i].time : i \in 1..Len(laps)})

NoTimeText == <<"N", "o", " ", "T", "i", "m", "e">>

NeutralLane == "black"

\* the dict appended to processed for one race
\* laps: the warmup lap of a mass start is not counted
CountedLaps(all_laps, is_mass_start) ==
    IF is_mass_start /\ all_laps # << >> THEN Tail(all_laps) ELSE all_laps

\* the appended dict, given laps_count, total_time and formatted_total_time
EntryOf(dist_id, race, is_mass_start, laps_count, total_time, formatted_total_time) ==
    [id |-> race.id,
     distance_id |-> dist_id,
     start_number |-> race.competitor.startNumber,
     name |-> race.competitor.name,
     heat |-> race.heat,
     lane |-> IF is_mass_start \/ Get(race, "lane", "") = ""
              THEN NeutralLane ELSE Get(race, "lane", ""),
     laps_count |-> laps_count,
     total_time |-> total_time,
     formatted_total_time |-> formatted_total_time,
     position |-> 0,
     position_change |-> None,
     gap_to_above |-> None,
     laps_remaining |-> None,
     is_final_lap |-> FALSE,
     finished_rank |-> None,
     group_number |-> None]

\* the entry of a race with laps, its total_time the latest lap time
TimedEntry(dist_id, race, is_mass_start, laps_count, total_time) ==
    EntryOf(dist_id, race, is_mass_start, laps_count, total_time, FormatTime(total_time))

\* the entry of a race, given its counted laps
EntryOfLaps(dist_id, race, is_mass_start, laps) ==
    IF laps # << >>
    THEN TimedEntry(dist_id, race, is_mass_start, Len(laps), MaxLapTime(laps))
    ELSE EntryOf(dist_id, race, is_mass_start, 0, << >>, NoTimeText)

BaseEntry(dist_id, race, is_mass_start) ==
    EntryOfLaps(dist_id, race, is_mass_start,
                CountedLaps(Get(race, "laps", << >>), is_mass_start))

\* r["total_time"] or "99:99:99"
SortTime(r) ==
    IF r.total_time = << >>
    THEN <<"9", "9", ":", "9", "9", ":", "9", "9">>
    ELSE r.total_time

\* a key that leaves the laps out
RankedBeforeByTimeOnly(a, b) == StrLess(SortTime(a), SortTime(b))

\* key(a) < key(b) for the key (-laps_count, total_time or "99:99:99")
RankedBefore(a, b) ==
    \/ a.laps_count > b.laps_count
    \/ /\ a.laps_count = b.laps_count
       /\ StrLess(SortTime(a), SortTime(b))

\* list.sort is stable: r goes before the first entry whose key is greater
RECURSIVE InsertRanked(_, _)
InsertRanked(sorted, r) ==
    IF sorted = << >> THEN <<r>>
    ELSE IF RankedBefore(r, sorted[1]) THEN <<r>> \o sorted
    ELSE <<sorted[1]>> \o InsertRanked(Tail(sorted), r)

RECURSIVE SortRanked(_)
SortRanked(rs) ==
    IF rs = << >> THEN << >>
    ELSE InsertRanked(SortRanked(SubSeq(rs, 1, Len(rs) - 1)), rs[Len(rs)])

\* processed after the sort and the position loop
\* the position loop over the sorted list
Positioned(sorted) == [i \in 1..Len(sorted) |-> [sorted[i] EXCEPT !.position = i]]

\* the loop over races, from index i on: one entry appended per race
RECURSIVE EntriesFrom(_, _, _, _)
EntriesFrom(dist_id, races, is_mass_start, i) ==
    IF i > Len(races) THEN << >>
    ELSE <<BaseEntry(dist_id, races[i], is_mass_start)>>
         \o EntriesFrom(dist_id, races, is_mass_start, i + 1)

Ranked(dist_id, races, is_mass_start) ==
    Positioned(SortRanked(EntriesFrom(dist_id, races, is_mass_start, 1)))

Max(a, b) == IF a >= b THEN a ELSE b

\* the finish loop: laps_remaining, is_final_lap, finished_rank
WithProgress(ranked, total_laps) ==
    [i \in 1..Len(ranked) |->
        LET remaining == Max(0, total_laps - ranked[i].laps_count)
            finished_upto == Cardinality({j \in 1..i : total_laps - ranked[j].laps_count <= 0})
        IN  [ranked[i] EXCEPT
                !.laps_remaining = Some(remaining),
                !.is_final_lap = (remaining = 1),
                !.finished_rank = IF remaining = 0 THEN Some(finished_upto) ELSE None]]

\* the gap, in milliseconds, up to which two riders are one standings group
GroupGapMillis == 2000

\* "_time_diff(a, b) <= 2.0": an error of the floats decides where the
\* decimal difference is the gap itself, and nowhere else
WithinGroupGap(a, b) ==
    \/ TimeDiff(a, b) < GroupGapMillis
    \/ TimeDiff(a, b) = GroupGapMillis /\ ~TimeDiffAbove(a, b)

\* an "unfinished" that takes every rider with a time, finished or not
RECURSIVE TimedFrom(_, _)
TimedFrom(rs, i) ==
    IF i > Len(rs) THEN << >>
    ELSE (IF rs[i].total_time # << >> THEN <<i>> ELSE << >>) \o TimedFrom(rs, i + 1)

\* the indices (into the ranked list) of "unfinished"
RECURSIVE UnfinishedFrom(_, _)
UnfinishedFrom(rs, i) ==
    IF i > Len(rs) THEN << >>
    ELSE (IF rs[i].finished_rank = None /\ rs[i].total_time # << >> THEN <<i>> ELSE << >>)
         \o UnfinishedFrom(rs, i + 1)

\* the grouping loop over unfinished[k..]; a group is [laps, members], the
\* members being indices into the ranked list; groups ends with cur
RECURSIVE GroupsFrom(_, _, _, _)
GroupsFrom(rs, unfinished, k, groups) ==
    IF k > Len(unfinished) THEN groups
    ELSE LET r == rs[unfinished[k]]
             n == Len(groups)
             cur == groups[n]
             last == rs[cur.members[Len(cur.members)]]
             fresh == [laps |-> r.laps_count, members |-> <<unfinished[k]>>]
         IN  IF n = 0
             THEN GroupsFrom(rs, unfinished, k + 1, <<fresh>>)
             ELSE IF /\ r.laps_count = cur.laps
                     /\ WithinGroupGap(last.total_time, r.total_time)
             THEN GroupsFrom(rs, unfinished, k + 1,
                             [groups EXCEPT ![n].members = Append(@, unfinished[k])])
             ELSE GroupsFrom(rs, unfinished, k + 1, Append(groups, fresh))

\* f"+{diff:.3f}s" of a difference in milliseconds
GapText(ms) ==
    LET frac == ms % 1000
    IN  <<"+">> \o StrOf(ms \div 1000) \o <<".">>
        \o <<DigitChar(frac \div 100), DigitChar((frac \div 10) % 10), DigitChar(frac % 10)>>
        \o <<"s">>

\* processed after group_number and gap_to_above are set
WithGroups(rs, groups) ==
    [i \in 1..Len(rs) |->
        IF \E gi \in 1..Len(groups) : \E ri \in 1..Len(groups[gi].members) :
               groups[gi].members[ri] = i
        THEN LET gi == CHOOSE g \in 1..Len(groups) :
                           \E ri \in 1..Len(groups[g].members) : groups[g].members[ri] = i
                 ri == CHOOSE x \in 1..Len(groups[gi].members) : groups[gi].members[x] = i
             IN  [rs[i] EXCEPT
                     !.group_number = Some(gi),
                     !.gap_to_above =
                         IF ri > 1
                         THEN Some(GapText(TimeDiff(rs[groups[gi].members[ri - 1]].total_time,
                                                    rs[i].total_time)))
                         ELSE None]
        ELSE rs[i]]

\* standings_groups
StandingsGroups(rs, groups) ==
    [gi \in 1..Len(groups) |->
        LET members == groups[gi].members
            first == rs[members[1]]
            leader_time == rs[groups[1].members[1]].total_time
            prev_last == rs[groups[gi - 1].members[Len(groups[gi - 1].members)]]
        IN  [group_number |-> gi,
             laps |-> groups[gi].laps,
             leader_time |-> IF first.total_time # << >>
                             THEN Some(first.formatted_total_time) ELSE None,
             gap_to_group_ahead |->
                 IF gi > 1 /\ prev_last.total_time # << >> /\ first.total_time # << >>
                 THEN Some(GapText(TimeDiff(prev_last.total_time, first.total_time)))
                 ELSE None,
             time_behind_leader |->
                 IF gi > 1 /\ leader_time # << >> /\ first.total_time # << >>
                 THEN Some(GapText(TimeDiff(leader_time, first.total_time)))
                 ELSE None,
             is_last_group |-> gi = Len(groups),
             race_ids |-> [ri \in 1..Len(members) |-> rs[members[ri]].id]]]

\* sorted(heat_map)
RECURSIVE SortedInts(_)
SortedInts(S) ==
    IF S = {} THEN << >>
    ELSE LET m == CHOOSE x \in S : \A y \in S : x <= y
         IN  <<m>> \o SortedInts(S \ {m})

RECURSIVE IdsOfHeat(_, _)
IdsOfHeat(rs, h) ==
    IF rs = << >> THEN << >>
    ELSE (IF rs[1].heat = h THEN <<rs[1].id>> ELSE << >>) \o IdsOfHeat(Tail(rs), h)

\* heat_groups
\* one heat group per heat of the sorted heats
HeatRows(rs, heats) ==
    [k \in 1..Len(heats) |-> [heat |-> heats[k], race_ids |-> IdsOfHeat(rs, heats[k])]]

HeatGroups(rs) == HeatRows(rs, SortedInts({rs[i].heat : i \in 1..Len(rs)}))

\* {r["id"]: r for r in processed}
RECURSIVE DictById(_, _)
DictById(rs, d) ==
    IF rs = << >> THEN d
    ELSE DictById(Tail(rs), DictSet(d, rs[1].id, rs[1]))

\* one pass of the loop over raw["distances"]:
\* [meta |-> distances_out[dist_id], comps |-> competitors_out[dist_id]]
\* finishing_line_after: the id of the last entry of with_time
FinishingLineAfter(with_time) ==
    IF with_time # << >> THEN Some(with_time[Len(with_time)].id) ELSE None

\* distances_out[dist_id] and competitors_out[dist_id] of the processed list
DistanceOut(dist, is_mass_start, total_laps, distance_meters, finishing_line_after, processed, groups) ==
    [meta |->
        [id |-> dist.id,
         name |-> dist.name,
         event_number |-> Get(dist, "eventNumber", 0),
         is_live |-> Get(dist, "isLive", FALSE),
         is_mass_start |-> is_mass_start,
         distance_meters |-> distance_meters,
         total_laps |-> total_laps,
         any_finished |-> \E i \in 1..Len(processed) : processed[i].finished_rank # None,
         finishing_line_after |-> finishing_line_after,
         standings_groups |-> StandingsGroups(processed, groups),
         heat_groups |-> IF is_mass_start THEN << >> ELSE HeatGroups(processed)],
     comps |-> DictById(processed, EmptyDict)]

\* the standings groups of the list the finish loop leaves, when the distance
\* is a mass start with a known, nonzero number of laps
GroupsOf(progression, progressed) ==
    IF progression
    THEN GroupsFrom(progressed, UnfinishedFrom(progressed, 1), 1, << >>)
    ELSE << >>

\* the group numbering and the outputs, given the groups
ProcessGrouped(dist, is_mass_start, total_laps, distance_meters, finishing_line_after, progressed, groups) ==
    DistanceOut(dist, is_mass_start, total_laps, distance_meters, finishing_line_after,
                WithGroups(progressed, groups), groups)

\* the grouping, given the list the finish loop leaves
ProcessProgressed(dist, is_mass_start, total_laps, distance_meters, finishing_line_after, progression, progressed) ==
    ProcessGrouped(dist, is_mass_start, total_laps, distance_meters, finishing_line_after,
                   progressed, GroupsOf(progression, progressed))

\* the finish loop, given the ranked list
ProcessRanked(dist, is_mass_start, total_laps, distance_meters, progression, ranked) ==
    ProcessProgressed(dist, is_mass_start, total_laps, distance_meters,
                      FinishingLineAfter(SelectSeq(ranked, LAMBDA r : r.total_time # << >>)),
                      progression,
                      IF progression THEN WithProgress(ranked, total_laps[1]) ELSE ranked)

\* the per-race loop and the sort, given what the title says
ProcessTitled(dist, races, is_mass_start, total_laps, distance_meters) ==
    ProcessRanked(dist, is_mass_start, total_laps, distance_meters,
                  is_mass_start /\ total_laps # None /\ total_laps # Some(0),
                  Ranked(dist.id, races, is_mass_start))

\* the title patterns, given the races and whether they are a mass start
ProcessRaces(dist, races, is_mass_start) ==
    ProcessTitled(dist, races, is_mass_start,
                  IF is_mass_start THEN SearchNumber(dist.name, "laps") ELSE None,
                  IF is_mass_start THEN None ELSE SearchNumber(dist.name, "meters"))

\* the races of a distance
RacesOf(dist) == Get(dist, "races", << >>)

ProcessDistance(dist) == ProcessRaces(dist, RacesOf(dist), IsMassStart(RacesOf(dist)))

\* the loop over raw["distances"], from index i on
RECURSIVE ProcessFrom(_, _, _, _)
RECURSIVE StoreDistance(_, _, _, _, _)

\* the two stores that end a pass of the loop, and the passes after it
StoreDistance(dists, i, distances_out, competitors_out, one) ==
    ProcessFrom(dists, i + 1,
                DictSet(distances_out, dists[i].id, one.meta),
                DictSet(competitors_out, dists[i].id, one.comps))

ProcessFrom(dists, i, distances_out, competitors_out) ==
    IF i > Len(dists)
    THEN [distances |-> distances_out, competitors |-> competitors_out]
    ELSE StoreDistance(dists, i, distances_out, competitors_out, ProcessDistance(dists[i]))

\* the dict _process returns
ProcessOut(raw, out) ==
    [name |-> Get(raw, "name", ""),
     distances |-> out.distances,
     competitors |-> out.competitors]

\* _process
Process(raw) ==
    ProcessOut(raw, ProcessFrom(Get(raw, "distances", << >>), 1, EmptyDict, EmptyDict))

\* _process runs to its return: every key it subscripts is there
\* (a missing one raises KeyError)
RaceComplete(race, is_counted) ==
    /\ {"id", "competitor", "heat"} \subseteq DOMAIN race
    /\ {"startNumber", "name"} \subseteq DOMAIN race.competitor
    /\ \A k \in 1..Len(Get(race, "laps", << >>)) :
          (is_counted /\ k = 1) \/ "time" \in DOMAIN race.laps[k]

ProcessReturns(raw) ==
    \A i \in 1..Len(Get(raw, "distances", << >>)) :
        LET dist == raw.distances[i]
            races == Get(dist, "races", << >>)
        IN  /\ {"id", "name"} \subseteq DOMAIN dist
            /\ \A k \in 1..Len(races) : "heat" \in DOMAIN races[k]
            /\ \A k \in 1..Len(races) : RaceComplete(races[k], IsMassStart(races))

(***************************************************************************)
(* _diff                                                                   *)
(***************************************************************************)

\* a comparison that passes over what b has and a has not
StateWithin(a, b) ==
    IF a = None \/ b = None THEN a = b
    ELSE /\ a.name = b.name
         /\ \A d \in DOMAIN a.distances.map :
               d \in DOMAIN b.distances.map /\ a.distances.map[d] = b.distances.map[d]
         /\ \A d \in DOMAIN a.competitors.map :
               /\ d \in DOMAIN b.competitors.map
               /\ \A c \in DOMAIN a.competitors.map[d].map :
                     /\ c \in DOMAIN b.competitors.map[d].map
                     /\ a.competitors.map[d].map[c] = b.competitors.map[d].map[c]

\* Python's == on two processed states, or on a state and None
StateEq(a, b) ==
    IF a = None \/ b = None THEN a = b
    ELSE /\ a.name = b.name
         /\ a.distances.map = b.distances.map
         /\ DOMAIN a.competitors.map = DOMAIN b.competitors.map
         /\ \A d \in DOMAIN a.competitors.map :
               a.competitors.map[d].map = b.competitors.map[d].map

\* a comparison that passes over a known competitor without a recorded time
ChangedCompsMutingNoTime(prev_comps, curr_comps, dist_id) ==
    LET prev_dist_comps == IF DictHas(prev_comps, dist_id) THEN prev_comps.map[dist_id] ELSE EmptyDict
        dist_comps == IF DictHas(curr_comps, dist_id) THEN curr_comps.map[dist_id] ELSE EmptyDict
    IN  SelectSeq(DictValues(dist_comps),
                  LAMBDA comp : /\ DictGet(prev_dist_comps, comp.id) # Some(comp)
                                /\ ~(comp.total_time = << >> /\ DictHas(prev_dist_comps, comp.id)))

\* a comparison that reports only the competitors with a new id
ChangedCompsNewOnly(prev_comps, curr_comps, dist_id) ==
    LET prev_dist_comps == IF DictHas(prev_comps, dist_id) THEN prev_comps.map[dist_id] ELSE EmptyDict
        dist_comps == IF DictHas(curr_comps, dist_id) THEN curr_comps.map[dist_id] ELSE EmptyDict
    IN  SelectSeq(DictValues(dist_comps),
                  LAMBDA comp : DictGet(prev_dist_comps, comp.id) = None)

\* the inner loop of _diff over one distance's competitors
ChangedComps(prev_comps, curr_comps, dist_id) ==
    LET prev_dist_comps == IF DictHas(prev_comps, dist_id) THEN prev_comps.map[dist_id] ELSE EmptyDict
        dist_comps == IF DictHas(curr_comps, dist_id) THEN curr_comps.map[dist_id] ELSE EmptyDict
    IN  SelectSeq(DictValues(dist_comps),
                  LAMBDA comp : DictGet(prev_dist_comps, comp.id) # Some(comp))

RECURSIVE DiffFrom(_, _, _, _, _)
DiffFrom(prev_dists, prev_comps, curr, i, acc) ==
    IF i > Len(curr.distances.order) THEN acc
    ELSE LET dist_id == curr.distances.order[i]
             dist == curr.distances.map[dist_id]
         IN  DiffFrom(prev_dists, prev_comps, curr, i + 1,
                 [dist_updates |-> acc.dist_updates \o
                      (IF DictGet(prev_dists, dist_id) # Some(dist) THEN <<dist>> ELSE << >>),
                  comp_updates |-> acc.comp_updates \o
                      ChangedComps(prev_comps, curr.competitors, dist_id)])

\* _diff: [dist_updates, comp_updates]
Diff(prev, curr) ==
    DiffFrom(IF prev = None THEN EmptyDict ELSE prev.distances,
             IF prev = None THEN EmptyDict ELSE prev.competitors,
             curr, 1, [dist_updates |-> << >>, comp_updates |-> << >>])

(***************************************************************************)
(* Messages (backend -> frontend) and what a frontend keeps of them        *)
(***************************************************************************)

StatusMsg ==
    [type |-> "status",
     data |-> [data_source_url |-> "DATA_SOURCE_URL",
               data_source_interval |-> "DATA_SOURCE_INTERVAL"]]

\* the text of the error notice, which the code sends as a bare string, is
\* held in a record so that it compares with the data of the other messages
ErrorMsg == [type |-> "error", data |-> [text |-> "Source returned success=false"]]

NameMsg(name) == [type |-> "event_name", data |-> [name |-> name]]

DistMsg(dist) == [type |-> "distance_meta", data |-> dist]

CompMsg(comp) == [type |-> "competitor_update", data |-> comp]

\* a replay that leaves the competitors out
ReplayWithoutCompetitors(state) ==
    <<NameMsg(state.name)>>
    \o [i \in 1..Len(state.distances.order) |-> DistMsg(DictValues(state.distances)[i])]

\* the replay of connect: the name, every distance, every competitor
ReplayMessages(state) ==
    LET comps_of(i) == [k \in 1..Len(DictValues(DictValues(state.competitors)[i])) |->
                            CompMsg(DictValues(DictValues(state.competitors)[i])[k])]
        RECURSIVE CompsFrom(_)
        CompsFrom(i) ==
            IF i > Len(state.competitors.order) THEN << >>
            ELSE comps_of(i) \o CompsFrom(i + 1)
    IN  <<NameMsg(state.name)>>
        \o [i \in 1..Len(state.distances.order) |-> DistMsg(DictValues(state.distances)[i])]
        \o CompsFrom(1)

\* a name check that fires in the first cycle only
NameChangedFirstOnly(prev, curr) == prev = None

\* "if prev is None or prev.get("name") != curr["name"]"
NameChanged(prev, curr) == prev = None \/ prev.name # curr.name

\* one distance_meta message per distance of a list
DistMsgs(dists) == [i \in 1..Len(dists) |-> DistMsg(dists[i])]

\* one competitor_update message per competitor of a list
CompMsgs(comps) == [i \in 1..Len(comps) |-> CompMsg(comps[i])]

\* the updates of d, taken distance by distance
RECURSIVE UpdatesByDistance(_, _, _)
UpdatesByDistance(d, ids, i) ==
    IF i > Len(ids) THEN << >>
    ELSE DistMsgs(SelectSeq(d.dist_updates, LAMBDA x : x.id = ids[i]))
         \o CompMsgs(SelectSeq(d.comp_updates, LAMBDA x : x.distance_id = ids[i]))
         \o UpdatesByDistance(d, ids, i + 1)

\* a cycle that broadcasts distance by distance: the meta of a distance,
\* then its competitors
CycleMessagesByDistance(prev, curr) ==
    (IF NameChanged(prev, curr) THEN <<NameMsg(curr.name)>> ELSE << >>)
    \o UpdatesByDistance(Diff(prev, curr), curr.distances.order, 1)

\* the distance updates alone
UpdateMessagesOfDistances(d) == DistMsgs(d.dist_updates)

\* the two broadcast loops over what _diff returned
UpdateMessages(d) == DistMsgs(d.dist_updates) \o CompMsgs(d.comp_updates)

\* the broadcasts of one publishing cycle, in the order of the calls
CycleMessages(prev, curr) ==
    (IF NameChanged(prev, curr) THEN <<NameMsg(curr.name)>> ELSE << >>)
    \o UpdateMessages(Diff(prev, curr))

\* what a subscriber makes of the messages it receives, none of which the
\* backend keeps: the last name notice, the last distance_meta per distance
\* id, the last competitor_update per (distance id, race id)
EmptyView == [name |-> None, distances |-> << >>, competitors |-> << >>]

Put(f, k, v) == [x \in (DOMAIN f) \cup {k} |-> IF x = k THEN v ELSE f[x]]

Receive(v, msg) ==
    CASE msg.type = "event_name" -> [v EXCEPT !.name = Some(msg.data.name)]
      [] msg.type = "distance_meta" ->
            [v EXCEPT !.distances = Put(@, msg.data.id, msg.data)]
      [] msg.type = "competitor_update" ->
            [v EXCEPT !.competitors = Put(@, <<msg.data.distance_id, msg.data.id>>, msg.data)]
      [] OTHER -> v

(***************************************************************************)
(* The payloads the data source serves                                     *)
(***************************************************************************)

\* the most laps a race of a generated payload has
MaxLaps == 2

Pad2(n) == <<DigitChar(n \div 10), DigitChar(n % 10)>>

Pad3(n) == <<DigitChar(n \div 100), DigitChar((n \div 10) % 10), DigitChar(n % 10)>>

\* the source's duration format HH:MM:SS.fff of a number of milliseconds
TimeStr(ms) ==
    Pad2(ms \div 3600000) \o <<":">> \o Pad2((ms \div 60000) % 60) \o <<":">>
    \o Pad2((ms \div 1000) % 60) \o <<".">> \o Pad3(ms % 1000)

Title500 == <<"5", "0", "0", " ", "m", "e", "t", "e", "r">>

TitleMass == <<"2", " ", "r", "o", "n", "d", "e", "s">>

Lap(ms) == [time |-> TimeStr(ms)]

\* the first n laps of a rider who is first seen after first ms and then
\* every lap ms
Laps(first, lap, n) == [k \in 1..n |-> Lap(first + (k - 1) * lap)]

Race(id, heat, lane, laps) ==
    [id |-> id, competitor |-> [startNumber |-> id, name |-> id],
     heat |-> heat, lane |-> lane, laps |-> laps]

\* a lane distance: r1 and r2 in two heats, r2 the faster starter and the
\* slower finisher
LaneDist(n1, n2) ==
    [id |-> "d1", name |-> Title500, eventNumber |-> 1, isLive |-> TRUE,
     races |-> <<Race("r1", 1, "red", Laps(10500, 10000, n1)),
                 Race("r2", 2, "white", Laps(10000, 11500, n2))>>]

\* a mass start over two laps: m1 and m2 ride together, m3 has not started
MassDist(n) ==
    [id |-> "d2", name |-> TitleMass, isLive |-> TRUE,
     races |-> <<Race("m1", 1, "", Laps(12000, 12000, n)),
                 Race("m2", 1, "", Laps(12500, 12000, n)),
                 Race("m3", 1, "", << >>)>>]

\* the payloads of an event under every progress of its races
Payloads ==
    {[name |-> name, distances |-> <<LaneDist(n1, n2)>> \o mass] :
        name \in {"A", "B"}, n1 \in 0..MaxLaps, n2 \in 0..MaxLaps,
        mass \in {<< >>} \cup {<<MassDist(n)>> : n \in {0, MaxLaps, MaxLaps + 1}}}

\* a payload whose distance has no id: _process raises KeyError
Malformed == [name |-> "A", distances |-> <<[name |-> Title500]>>]

\* what the source serves while websockets connect: two riders before and
\* after the first lap of one of them, and the malformed payload
Feed ==
    {[name |-> "A", distances |->
         <<[id |-> "d1", name |-> Title500,
            races |-> <<Race("r1", 1, "red", Laps(10500, 10000, n)),
                        Race("r2", 2, "white", << >>)>>]>>] : n \in {0, 1}}
    \cup {Malformed}

\* what the source serves in the runs of the fetch loop alone
CycleFeed == Payloads \cup {Malformed}

\* rec without its field key
Drop(rec, key) == [k \in DOMAIN rec \ {key} |-> rec[k]]

\* what the source serves in the runs with missing fields: a lane distance
\* after the first lap of both riders, and the same distance with one field
\* of its first race missing, with one field of its own missing, and under
\* a name that gives no distance in meters
SparseFeed ==
    {[name |-> "A", distances |-> <<dist>>] :
        dist \in {LaneDist(1, 1), [LaneDist(1, 1) EXCEPT !.name = TitleMass]}
                 \cup {[LaneDist(1, 1) EXCEPT !.races[1] = Drop(@, key)] :
                          key \in {"laps", "lane", "heat"}}
                 \cup {Drop(LaneDist(1, 1), key) : key \in {"races", "eventNumber"}}}

\* a rider's laps are served until this many beyond the title's
OverLaps == 1

\* how many riders of the live mass start ride on
Riders == 2

\* the live mass start as it is first served: every rider has the warmup lap
RaceStart ==
    [name |-> "A", distances |->
        <<[id |-> "d2", name |-> TitleMass, isLive |-> TRUE,
           races |-> <<Race("m1", 1, "", <<Lap(11000)>>),
                       Race("m2", 1, "", <<Lap(12000)>>),
                       Race("m3", 1, "", <<Lap(13000)>>)>>]>>]

\* the laps recorded in the distance of raw
RECURSIVE LapsRecorded(_, _)
LapsRecorded(races, i) ==
    IF i > Len(races) THEN 0 ELSE Len(races[i].laps) + LapsRecorded(races, i + 1)

\* the race clock at the next crossing: later than every crossing before
NextCrossing(raw) == 20000 + 9000 * LapsRecorded(raw.distances[1].races, 1)

(***************************************************************************)
(* The state                                                               *)
(***************************************************************************)

\* how many websockets connect while the event runs
NumSubs == 1

\* how many websockets connect in the fan-out runs
FanSubs == 3

Subs == 1..(IF NumSubs > FanSubs THEN NumSubs ELSE FanSubs)

VARIABLES
    active,     \* manager.active: the registered websockets, in order
    cache,      \* cache["processed_state"]: None or the published state
    broken,     \* broken[s]: the peer of s is gone, a send to s raises
    stalled,    \* stalled[s]: the peer of s reads no more, a send to s never completes
    wpc,        \* wpc[s]: where websocket_endpoint(s) stands
    rstate,     \* rstate[s]: the local "state" of connect(s)
    ridx,       \* ridx[s]: the next replay message of connect(s)
    sent,       \* sent[s]: the messages connect(s) has sent
    mid,        \* mid[s]: connect(s) read the cache while a cycle broadcast
    view,       \* view[s]: the frontend's picture of the event
    fpc,        \* where fetch_data_loop stands
    tick,       \* what the fetch of the current tick brought
    curr,       \* the local "curr" of fetch_data_loop
    prev,       \* the local "prev" of fetch_data_loop
    queue,      \* the broadcasts the tick still makes, the one in flight first
    log,        \* the messages the tick has called broadcast with
    start,      \* self.active when the broadcast in flight was called
    snap,       \* list(self.active) of the broadcast in flight
    idx,        \* the next websocket of snap
    dead,       \* the local "dead" of the broadcast in flight
    got,        \* the websockets the broadcast in flight has delivered to
    joined,     \* the websockets registered while the broadcast is in flight
    ret,        \* the broadcast call that returned in the last step, or None
    args,       \* the arguments of a pure function under test
    result,     \* its result
    served,     \* the payload the data source serves now
    latest      \* what _process returned for the last payload it processed

vars == <<active, cache, broken, stalled, wpc, rstate, ridx, sent, mid, view, fpc, tick,
          curr, prev, queue, log, start, snap, idx, dead, got, joined, ret, args, result,
          served, latest>>

Init ==
    /\ active = << >>
    /\ cache = None
    /\ broken = [s \in Subs |-> FALSE]
    /\ stalled = [s \in Subs |-> FALSE]
    /\ wpc = [s \in Subs |-> "idle"]
    /\ rstate = [s \in Subs |-> None]
    /\ ridx = [s \in Subs |-> 0]
    /\ sent = [s \in Subs |-> << >>]
    /\ mid = [s \in Subs |-> FALSE]
    /\ view = [s \in Subs |-> EmptyView]
    /\ fpc = "sleep"
    /\ tick = "none"
    /\ curr = None
    /\ prev = None
    /\ queue = << >>
    /\ log = << >>
    /\ start = << >>
    /\ snap = << >>
    /\ idx = 0
    /\ dead = << >>
    /\ got = << >>
    /\ joined = {}
    /\ ret = None
    /\ args = None
    /\ result = None
    /\ served = RaceStart
    /\ latest = None

(***************************************************************************)
(* Locals go out of scope.  The locals of connect(s) and the record of     *)
(* what it sent are kept for one step after connect has returned or        *)
(* raised; the locals of a tick of the fetch loop and the record of what   *)
(* it broadcast are kept for one step after the tick has ended.            *)
(***************************************************************************)

Returned(s) == wpc[s] \in {"open", "failed", "closed"}

\* a step of connect(s) that leaves it at pc with the locals st and i, the
\* record snt and the mark m; s = 0 for a step of another task
ConnStep(s, pc, st, i, snt, m) ==
    /\ wpc' = [t \in Subs |-> IF t = s THEN pc ELSE wpc[t]]
    /\ rstate' = [t \in Subs |-> IF t = s THEN st ELSE IF Returned(t) THEN None ELSE rstate[t]]
    /\ ridx' = [t \in Subs |-> IF t = s THEN i ELSE IF Returned(t) THEN 0 ELSE ridx[t]]
    /\ sent' = [t \in Subs |-> IF t = s THEN snt ELSE IF Returned(t) THEN << >> ELSE sent[t]]
    /\ mid' = [t \in Subs |-> IF t = s THEN m ELSE IF Returned(t) THEN FALSE ELSE mid[t]]
    /\ UNCHANGED <<args, result, served>>

ConnIdle == ConnStep(0, "", None, 0, << >>, FALSE)

\* a step of another task than the fetch loop
LoopIdle ==
    /\ ret' = None
    /\ IF fpc = "sleep"
       THEN tick' = "none" /\ curr' = None /\ prev' = None /\ log' = << >>
       ELSE UNCHANGED <<tick, curr, prev, log>>
    /\ UNCHANGED <<fpc, queue, start, snap, idx, dead, got, latest>>

(***************************************************************************)
(* ConnectionManager                                                       *)
(***************************************************************************)

InSeq(x, q) == \E i \in 1..Len(q) : q[i] = x

\* every websocket registered after ws
DisconnectUpTo(act, ws) == SelectSeq(act, LAMBDA c : c > ws)

\* disconnect: self.active = [c for c in self.active if c is not ws]
Disconnect(act, ws) == SelectSeq(act, LAMBDA c : c # ws)

\* an eviction that drops the dead and everyone registered after them
EvictFromFirstDead(act, dead_list) ==
    IF dead_list = << >> THEN act
    ELSE SelectSeq(act, LAMBDA c : c < dead_list[1])

\* "for ws in dead: self.disconnect(ws)"
RECURSIVE Evict(_, _)
Evict(act, dead_list) ==
    IF dead_list = << >> THEN act
    ELSE Evict(Disconnect(act, dead_list[1]), Tail(dead_list))

\* a send to s raises
SendFails(s) == broken[s]

\* "await ws.send_json(msg)" to s completes (or raises): the code sets no
\* bound on the wait
SendCompletes(s) == ~stalled[s]

\* "dead" after the handler of a failed send to s
Dropped(dead_list, s) == Append(dead_list, s)

\* a snapshot that misses the websocket registered last
SnapshotButLast(act) == SubSeq(act, 1, Len(act) - 1)

\* "for ws in list(self.active)": the snapshot a broadcast call iterates
Snapshot(act) == act

\* the broadcast calls the fetch loop makes next, from the return of one
\* call to the first send that suspends: a call on an empty registry returns
\* at once, a call on a non-empty one takes its snapshot and starts to send
Calls(q, act, returned, lg) ==
    IF q = << >>
    THEN /\ fpc' = "sleep"
         /\ queue' = << >>
         /\ log' = lg
         /\ start' = << >> /\ snap' = << >>
         /\ idx' = 0 /\ dead' = << >> /\ got' = << >> /\ joined' = {}
         /\ ret' = returned
    ELSE IF Snapshot(act) = << >>
    THEN /\ fpc' = "sleep"
         /\ queue' = << >>
         /\ log' = lg \o q
         /\ start' = << >> /\ snap' = << >>
         /\ idx' = 0 /\ dead' = << >> /\ got' = << >> /\ joined' = {}
         /\ ret' = [msg |-> q[Len(q)], start |-> act, dead |-> << >>, got |-> << >>,
                    joined |-> {}, after |-> act]
    ELSE /\ fpc' = "bcast"
         /\ queue' = q
         /\ log' = Append(lg, q[1])
         /\ start' = act /\ snap' = Snapshot(act)
         /\ idx' = 1 /\ dead' = << >> /\ got' = << >> /\ joined' = {}
         /\ ret' = returned

\* connect: ws.accept() has returned; self.active.append(ws).  Websockets
\* are numbered in the order in which they register.
ConnAccept(s) ==
    /\ wpc[s] = "idle"
    /\ \A t \in Subs : t < s => wpc[t] # "idle"
    /\ active' = Append(active, s)
    /\ ConnStep(s, "status", None, 0, << >>, FALSE)
    /\ joined' = IF fpc = "bcast" THEN joined \cup {s} ELSE joined
    /\ LoopIdle
    /\ UNCHANGED <<stalled, cache, broken, view>>

\* connect: the status notice
ConnStatus(s) ==
    /\ wpc[s] = "status"
    /\ SendCompletes(s)
    /\ IF SendFails(s)
       THEN ConnStep(s, "failed", None, 0, sent[s], FALSE)
       ELSE ConnStep(s, "get", None, 0, Append(sent[s], StatusMsg), FALSE)
    /\ LoopIdle
    /\ UNCHANGED <<stalled, active, cache, broken, view, joined>>

\* connect: state = await cache.get("processed_state"); "if state:"
ConnGet(s) ==
    /\ wpc[s] = "get"
    /\ IF cache = None
       THEN ConnStep(s, "open", cache, 0, sent[s], fpc = "bcast" /\ tick = "payload")
       ELSE ConnStep(s, "replay", cache, 1, sent[s], fpc = "bcast" /\ tick = "payload")
    /\ LoopIdle
    /\ UNCHANGED <<stalled, active, cache, broken, view, joined>>

\* a replay that reads the cache again for every message
ReplaySourceReread(s) == cache

\* the state the replay of connect(s) takes its messages from
ReplaySource(s) == rstate[s]

\* connect: one send of the replay
ConnReplay(s) ==
    /\ wpc[s] = "replay"
    /\ SendCompletes(s)
    /\ LET msgs == ReplayMessages(ReplaySource(s))
           msg == msgs[ridx[s]]
       IN  IF SendFails(s)
           THEN /\ ConnStep(s, "failed", rstate[s], ridx[s], sent[s], mid[s])
                /\ view' = view
           ELSE /\ ConnStep(s, IF ridx[s] = Len(msgs) THEN "open" ELSE "replay",
                            rstate[s], ridx[s] + 1, Append(sent[s], msg), mid[s])
                /\ view' = [view EXCEPT ![s] = Receive(@, msg)]
    /\ LoopIdle
    /\ UNCHANGED <<stalled, active, cache, broken, joined>>

\* the peer of s goes away: from now on a send to s raises, receive_text
\* raises once the endpoint waits in it, and no frontend is left to look at
Break(s) ==
    /\ wpc[s] \notin {"idle", "closed"}
    /\ ~broken[s]
    /\ ~stalled[s]
    /\ broken' = [broken EXCEPT ![s] = TRUE]
    /\ view' = [view EXCEPT ![s] = EmptyView]
    /\ ConnIdle
    /\ LoopIdle
    /\ UNCHANGED <<stalled, active, cache, joined>>

\* the peer of s stays connected and stops reading: once the write buffer
\* is full a send to s waits for room that never comes
Stall(s) ==
    /\ wpc[s] \notin {"idle", "closed", "failed"}
    /\ ~broken[s]
    /\ ~stalled[s]
    /\ stalled' = [stalled EXCEPT ![s] = TRUE]
    /\ ConnIdle
    /\ LoopIdle
    /\ UNCHANGED <<active, cache, broken, view, joined>>

\* an endpoint that calls disconnect also when connect has raised
EndpointDisconnectAfterConnect(s) ==
    /\ wpc[s] \in {"open", "failed"}
    /\ broken[s]
    /\ active' = Disconnect(active, s)
    /\ ConnStep(s, "closed", None, 0, << >>, FALSE)
    /\ LoopIdle
    /\ UNCHANGED <<stalled, cache, broken, view, joined>>

\* websocket_endpoint: receive_text raised; manager.disconnect(ws)
EndpointDisconnect(s) ==
    /\ wpc[s] = "open"
    /\ broken[s]
    /\ active' = Disconnect(active, s)
    /\ ConnStep(s, "closed", None, 0, << >>, FALSE)
    /\ LoopIdle
    /\ UNCHANGED <<stalled, cache, broken, view, joined>>

\* broadcast: one "await ws.send_json(msg)" of the loop over the snapshot,
\* and after the last one the eviction and the return
BroadcastSend ==
    /\ fpc = "bcast"
    /\ SendCompletes(snap[idx])
    /\ LET s == snap[idx]
           msg == queue[1]
           dead1 == IF SendFails(s) THEN Dropped(dead, s) ELSE dead
           got1 == IF SendFails(s) THEN got ELSE Append(got, s)
           after == Evict(active, dead1)
       IN  /\ view' = IF SendFails(s) THEN view
                      ELSE [view EXCEPT ![s] = Receive(@, msg)]
           /\ IF idx < Len(snap)
              THEN /\ idx' = idx + 1
                   /\ dead' = dead1
                   /\ got' = got1
                   /\ ret' = None
                   /\ UNCHANGED <<active, fpc, queue, log, start, snap, joined>>
              ELSE /\ active' = after
                   /\ Calls(Tail(queue), after,
                            [msg |-> msg, start |-> start, dead |-> dead1, got |-> got1,
                             joined |-> joined, after |-> after],
                            log)
    /\ ConnIdle
    /\ UNCHANGED <<stalled, cache, broken, tick, curr, prev, latest>>

(***************************************************************************)
(* fetch_data_loop                                                         *)
(***************************************************************************)

\* the fetch brought no payload: a status other than 200
TickNon200 ==
    /\ fpc = "sleep"
    /\ tick' = "non200"
    /\ curr' = None /\ prev' = None /\ log' = << >> /\ ret' = None
    /\ ConnIdle
    /\ UNCHANGED <<stalled, active, cache, broken, view, fpc, queue, start, snap, idx, dead, got,
                   joined, latest>>

\* the fetch raised
TickException ==
    /\ fpc = "sleep"
    /\ tick' = "exception"
    /\ curr' = None /\ prev' = None /\ log' = << >> /\ ret' = None
    /\ ConnIdle
    /\ UNCHANGED <<stalled, active, cache, broken, view, fpc, queue, start, snap, idx, dead, got,
                   joined, latest>>

\* a success=false tick that forgets the published state
TickSuccessFalseForgets ==
    /\ fpc = "sleep"
    /\ tick' = "success_false"
    /\ curr' = None /\ prev' = None
    /\ cache' = None
    /\ Calls(<<ErrorMsg>>, active, None, << >>)
    /\ ConnIdle
    /\ UNCHANGED <<stalled, active, broken, view, latest>>

\* the payload says success=false: the error notice is broadcast
TickSuccessFalse ==
    /\ fpc = "sleep"
    /\ tick' = "success_false"
    /\ curr' = None /\ prev' = None
    /\ Calls(<<ErrorMsg>>, active, None, << >>)
    /\ ConnIdle
    /\ UNCHANGED <<stalled, active, cache, broken, view, latest>>

\* _process(raw) of every payload served: the state in a one-element
\* sequence, or None where _process raises
Processed ==
    [raw \in Feed \cup CycleFeed \cup SparseFeed |->
        IF ProcessReturns(raw) THEN Some(Process(raw)) ELSE None]

\* a payload arrived: curr = _process(raw), or _process raises and the
\* handler of the loop logs it
TickPayload(raw) ==
    /\ fpc = "sleep"
    /\ prev' = None /\ log' = << >> /\ ret' = None
    /\ IF Processed[raw] # None
       THEN /\ tick' = "payload"
            /\ curr' = Processed[raw][1]
            /\ latest' = Processed[raw][1]
            /\ fpc' = "get"
       ELSE /\ tick' = "exception"
            /\ curr' = None
            /\ latest' = latest
            /\ fpc' = "sleep"
    /\ ConnIdle
    /\ UNCHANGED <<stalled, active, cache, broken, view, queue, start, snap, idx, dead, got, joined>>

\* prev = await cache.get("processed_state"); "if curr != prev:"
CycleGet ==
    /\ fpc = "get"
    /\ prev' = cache
    /\ fpc' = IF StateEq(curr, cache) THEN "sleep" ELSE "set"
    /\ ret' = None
    /\ ConnIdle
    /\ UNCHANGED <<stalled, active, cache, broken, view, tick, curr, queue, log,
                   start, snap, idx, dead, got, joined, latest>>

\* a loop that stores only the first state it publishes
CycleSetFirstOnly ==
    /\ fpc = "set"
    /\ cache' = IF prev = None THEN curr ELSE cache
    /\ Calls(CycleMessages(prev, curr), active, None, log)
    /\ ConnIdle
    /\ UNCHANGED <<stalled, active, broken, view, tick, curr, prev, latest>>

\* await cache.set("processed_state", curr), then the broadcasts
CycleSet ==
    /\ fpc = "set"
    /\ cache' = curr
    /\ Calls(CycleMessages(prev, curr), active, None, log)
    /\ ConnIdle
    /\ UNCHANGED <<stalled, active, broken, view, tick, curr, prev, latest>>

\* the whole system: websockets connect and go away while the loop runs
Next ==
    \/ \E s \in 1..NumSubs : ConnAccept(s)
    \/ \E s \in Subs : ConnStatus(s)
    \/ \E s \in Subs : ConnGet(s)
    \/ \E s \in Subs : ConnReplay(s)
    \/ \E s \in Subs : Break(s)
    \/ \E s \in Subs : EndpointDisconnect(s)
    \/ BroadcastSend
    \/ TickNon200
    \/ TickException
    \/ TickSuccessFalse
    \/ \E raw \in Feed : TickPayload(raw)
    \/ CycleGet
    \/ CycleSet

Spec == Init /\ [][Next]_vars

\* the fan-out alone: the source keeps answering success=false
NextFanout ==
    \/ \E s \in 1..FanSubs : ConnAccept(s)
    \/ \E s \in Subs : ConnStatus(s)
    \/ \E s \in Subs : ConnGet(s)
    \/ \E s \in Subs : Break(s)
    \/ \E s \in Subs : EndpointDisconnect(s)
    \/ BroadcastSend
    \/ TickSuccessFalse

SpecFanout == Init /\ [][NextFanout]_vars

\* how many websockets connect in the runs with a peer that stops reading
StallSubs == 2

\* the fan-out with peers that stop reading
NextStall ==
    \/ \E s \in 1..StallSubs : ConnAccept(s)
    \/ \E s \in Subs : ConnStatus(s)
    \/ \E s \in Subs : ConnGet(s)
    \/ \E s \in Subs : Stall(s)
    \/ \E s \in Subs : Break(s)
    \/ \E s \in Subs : EndpointDisconnect(s)
    \/ BroadcastSend
    \/ TickSuccessFalse

\* the event loop resumes the broadcast whenever the send it waits for has
\* completed or raised
SpecStall == Init /\ [][NextStall]_vars /\ WF_vars(BroadcastSend)

\* the fetch loop alone, nobody connected, over every payload
NextCycle ==
    \/ TickNon200
    \/ TickException
    \/ TickSuccessFalse
    \/ \E raw \in CycleFeed : TickPayload(raw)
    \/ CycleGet
    \/ CycleSet

SpecCycle == Init /\ [][NextCycle]_vars

\* what the source serves in the runs without overlap: the payloads of the
\* other runs, and an event under two names with and without its second
\* distance
SettledFeed ==
    Feed \cup SparseFeed
    \cup {[name |-> name, distances |-> <<LaneDist(1, 0)>> \o mass] :
             name \in {"A", "B"}, mass \in {<< >>, <<MassDist(MaxLaps + 1)>>}}

\* connect(s) has registered s and has not returned
Connecting(s) == wpc[s] \in {"status", "get", "replay"}

\* the whole system when no connect overlaps a tick: a websocket is accepted
\* while the loop sleeps, and the loop wakes when every connect has returned
NextSettled ==
    \/ \E s \in 1..NumSubs : fpc = "sleep" /\ ConnAccept(s)
    \/ \E s \in Subs : ConnStatus(s)
    \/ \E s \in Subs : ConnGet(s)
    \/ \E s \in Subs : ConnReplay(s)
    \/ \E s \in Subs : Break(s)
    \/ \E s \in Subs : EndpointDisconnect(s)
    \/ BroadcastSend
    \/ (\A s \in Subs : ~Connecting(s)) /\ TickSuccessFalse
    \/ \E raw \in SettledFeed : (\A s \in Subs : ~Connecting(s)) /\ TickPayload(raw)
    \/ CycleGet
    \/ CycleSet

SpecSettled == Init /\ [][NextSettled]_vars

\* the fetch loop alone, nobody connected, over payloads with missing fields
NextSparse ==
    \/ \E raw \in SparseFeed : TickPayload(raw)
    \/ CycleGet
    \/ CycleSet

SpecSparse == Init /\ [][NextSparse]_vars

\* the source records the next crossing of rider i
SourceLap(i) ==
    /\ Len(served.distances[1].races[i].laps) < 1 + MaxLaps + OverLaps
    /\ served' = [served EXCEPT !.distances[1].races[i].laps =
                                   Append(@, Lap(NextCrossing(served)))]
    /\ UNCHANGED <<active, cache, broken, stalled, wpc, rstate, ridx, sent, mid, view, fpc,
                   tick, curr, prev, queue, log, start, snap, idx, dead, got, joined, ret,
                   args, result, latest>>

\* the fetch brought what the source serves now: curr = _process(raw), or
\* _process raises and the handler of the loop logs it
TickServed ==
    /\ fpc = "sleep"
    /\ prev' = None /\ log' = << >> /\ ret' = None
    /\ IF ProcessReturns(served)
       THEN /\ tick' = "payload"
            /\ curr' = Process(served)
            /\ latest' = Process(served)
            /\ fpc' = "get"
       ELSE /\ tick' = "exception"
            /\ curr' = None
            /\ latest' = latest
            /\ fpc' = "sleep"
    /\ ConnIdle
    /\ UNCHANGED <<stalled, active, cache, broken, view, queue, start, snap, idx, dead, got, joined>>

\* the fetch loop alone, nobody connected, while a mass start is ridden
NextRace ==
    \/ \E i \in 1..Riders : SourceLap(i)
    \/ TickServed
    \/ CycleGet
    \/ CycleSet

SpecRace == Init /\ [][NextRace]_vars

(***************************************************************************)
(* _diff on its own                                                        *)
(***************************************************************************)

DiffStates == {Process(raw) : raw \in Payloads}

InitDiff ==
    /\ active = << >>
    /\ cache = None
    /\ broken = [s \in Subs |-> FALSE]
    /\ stalled = [s \in Subs |-> FALSE]
    /\ wpc = [s \in Subs |-> "idle"]
    /\ rstate = [s \in Subs |-> None]
    /\ ridx = [s \in Subs |-> 0]
    /\ sent = [s \in Subs |-> << >>]
    /\ mid = [s \in Subs |-> FALSE]
    /\ view = [s \in Subs |-> EmptyView]
    /\ fpc = "sleep"
    /\ tick = "none"
    /\ curr = None
    /\ prev = None
    /\ queue = << >>
    /\ log = << >>
    /\ start = << >>
    /\ snap = << >>
    /\ idx = 0
    /\ dead = << >>
    /\ got = << >>
    /\ joined = {}
    /\ ret = None
    /\ args \in [prev : DiffStates \cup {None}, curr : DiffStates]
    /\ result = None
    /\ served = RaceStart
    /\ latest = None

\* dist_updates, comp_updates = _diff(prev, curr)
CallDiff ==
    /\ result = None
    /\ result' = Diff(args.prev, args.curr)
    /\ UNCHANGED <<stalled, active, cache, broken, wpc, rstate, ridx, sent, mid, view, fpc,
                   tick, curr, prev, queue, log, start, snap, idx, dead, got, joined, ret, args,
                   served, latest>>

SpecDiff == InitDiff /\ [][CallDiff]_vars

(***************************************************************************)
(* Properties of the broadcast fan-out                                     *)
(***************************************************************************)

Members(q) == {q[i] : i \in 1..Len(q)}

NoRepeats(q) == \A i, j \in 1..Len(q) : q[i] = q[j] => i = j

\* the websockets of q that are not in the set gone, in the order of q
Without(q, gone) == SelectSeq(q, LAMBDA c : c \notin gone)

\* C1 (as stated): every broadcast call attempts a delivery to each
\* subscriber registered at call start whatever happens to the others, and
\* when the call returns the registry is the registry of call start minus
\* exactly the subscribers whose delivery failed; the tick that made the call
\* goes on to its end.
C1_RegistryIsStartMinusFailed ==
    ret # None =>
        /\ NoRepeats(ret.got \o ret.dead)
        /\ Members(ret.got) \cup Members(ret.dead) = Members(ret.start)
        /\ ret.after = Without(ret.start, Members(ret.dead))
        /\ active = ret.after
        /\ fpc \in {"sleep", "bcast"} /\ log # << >>

\* C1 (amended): every broadcast call attempts exactly one delivery to each
\* subscriber registered at call start whatever happens to the others; when
\* the call returns, no subscriber whose delivery failed is registered, every
\* subscriber of call start whose delivery succeeded is registered unless its
\* own endpoint disconnected it during the call, and whoever else is
\* registered was registered by a connect during the call; the tick that
\* made the call goes on to its end.
C1_FailedEvictedOthersKept ==
    ret # None =>
        /\ NoRepeats(ret.got \o ret.dead)
        /\ Members(ret.got) \cup Members(ret.dead) = Members(ret.start)
        /\ Members(ret.after) \cap Members(ret.dead) = {}
        /\ \A s \in Members(ret.got) : s \in Members(ret.after) \/ wpc[s] = "closed"
        /\ Members(ret.after) \ Members(ret.start) \subseteq ret.joined
        /\ Without(ret.after, ret.joined) = Without(ret.start, Members(ret.start) \ Members(ret.after))
        /\ active = ret.after
        /\ fpc \in {"sleep", "bcast"} /\ log # << >>

\* three subscribers, the delivery to the second fails: the first and the
\* third have the message and two remain registered
C1_SecondOfThreeFails ==
    /\ ret # None
    /\ ret.start = <<1, 2, 3>>
    /\ ret.got = <<1, 3>>
    /\ ret.dead = <<2>>
    /\ ret.after = <<1, 3>>
    /\ active = <<1, 3>>

\* C4 (as stated): a broadcast call attempts delivery to exactly the
\* subscribers registered when it was called; a subscriber registered by a
\* connect while the call is in flight gets nothing from the call and is
\* registered when the call returns, and the eviction at the end of the call
\* removes the failed subscribers and nobody else.
C4_JoinerKeptAtReturn ==
    [][ret' # None =>
        /\ Members(ret'.got) \cup Members(ret'.dead) = Members(ret'.start)
        /\ \A j \in ret'.joined :
              /\ j \notin Members(ret'.start)
              /\ j \notin Members(ret'.got) \cup Members(ret'.dead)
              /\ j \in Members(active')
        /\ active' = Without(active, Members(ret'.dead))]_vars

\* C4 (amended): as stated, except that a subscriber registered during the
\* call is registered when the call returns unless its own endpoint has
\* disconnected it in the meantime.
C4_JoinerNotTouchedByCall ==
    [][ret' # None =>
        /\ Members(ret'.got) \cup Members(ret'.dead) = Members(ret'.start)
        /\ \A j \in ret'.joined :
              /\ j \notin Members(ret'.start)
              /\ j \notin Members(ret'.got) \cup Members(ret'.dead)
              /\ j \in Members(active') \/ wpc'[j] = "closed"
        /\ active' = Without(active, Members(ret'.dead))]_vars

\* a call returned that evicted a subscriber and left one registered that
\* joined during the call
C4_JoinerSurvivesEviction ==
    /\ ret # None
    /\ ret.dead # << >>
    /\ \E j \in ret.joined : j \in Members(active) /\ j \notin Members(ret.got)

(***************************************************************************)
(* Properties of connect and of the fetch loop running side by side        *)
(***************************************************************************)

\* the view holds the name of state st and, for every distance id and every
\* competitor id of st, the value st has for it
ViewMatches(v, st) ==
    /\ v.name = Some(st.name)
    /\ \A d \in Members(st.distances.order) :
          d \in DOMAIN v.distances /\ v.distances[d] = st.distances.map[d]
    /\ \A d \in Members(st.competitors.order) :
          \A c \in Members(st.competitors.map[d].order) :
              /\ <<d, c>> \in DOMAIN v.competitors
              /\ v.competitors[<<d, c>>] = st.competitors.map[d].map[c]

\* C2: whatever the interleaving of connect with the fetch loop, a subscriber
\* whose deliveries all succeeded has, once its connect has returned and no
\* cycle is in flight, a view equal to the cached published state for every
\* id of that state.
C2_ViewMatchesCache ==
    \A s \in Subs :
        (wpc[s] = "open" /\ ~broken[s] /\ fpc = "sleep" /\ cache # None)
            => ViewMatches(view[s], cache)

\* C3 (as stated): a connect that reads the cache while a cycle's broadcast
\* is in flight replays the state of the most recently completed cycle, the
\* one the cache held before the cycle in flight.
C3_ReplaysCompletedCycle ==
    [][\A s \in Subs : (~mid[s] /\ mid'[s]) => rstate'[s] = prev]_vars

\* the replay message m is the name, a distance or a competitor of state st
MessageOf(m, st) ==
    \/ m = NameMsg(st.name)
    \/ \E d \in Members(st.distances.order) : m = DistMsg(st.distances.map[d])
    \/ \E d \in Members(st.competitors.order) :
          \E c \in Members(st.competitors.map[d].order) :
              m = CompMsg(st.competitors.map[d].map[c])

\* C3 (amended): a connect that reads the cache while a cycle's broadcast is
\* in flight replays the state that cycle is broadcasting, which the cache
\* holds already and which differs from the state of the last completed
\* cycle; every message of the replay is taken from that one state.
C3_ReplaysCycleInFlight ==
    /\ [][\A s \in Subs : (~mid[s] /\ mid'[s]) =>
            /\ rstate'[s] = curr
            /\ ~StateEq(curr, prev)]_vars
    /\ [](\A s \in Subs : mid[s] =>
            /\ rstate[s] # None
            /\ \A i \in 2..Len(sent[s]) : MessageOf(sent[s][i], rstate[s]))

\* a connect that read the cache during a broadcast has replayed a state for
\* which a completed cycle's state was cached before
C3_ConnectedMidBroadcast ==
    \E s \in Subs :
        /\ mid[s] /\ wpc[s] = "open"
        /\ Len(sent[s]) > 2
        /\ prev # None
        /\ rstate[s] = cache

\* how many messages of q satisfy P
Count(q, P(_)) == Cardinality({i \in 1..Len(q) : P(q[i])})

\* C5: a connect that found the cache empty has sent the status notice and
\* nothing else; a connect that found a state has sent the status notice,
\* then one name notice, then one distance_meta for each distance of the
\* state, then one competitor_update for each competitor of the state, and
\* nothing else.
C5_ReplayContent ==
    \A s \in Subs :
        (wpc[s] = "open" /\ sent[s] # << >>) =>
            IF rstate[s] = None
            THEN sent[s] = <<StatusMsg>>
            ELSE LET st == rstate[s]
                     ds == Members(st.distances.order)
                     cs == UNION {{<<d, c>> : c \in Members(st.competitors.map[d].order)} :
                                     d \in Members(st.competitors.order)}
                     nd == Cardinality(ds)
                     nc == Cardinality(cs)
                 IN  /\ Len(sent[s]) = 2 + nd + nc
                     /\ sent[s][1] = StatusMsg
                     /\ sent[s][2] = NameMsg(st.name)
                     /\ \A i \in 3..(2 + nd) : sent[s][i].type = "distance_meta"
                     /\ \A i \in (3 + nd)..(2 + nd + nc) : sent[s][i].type = "competitor_update"
                     /\ \A d \in ds :
                           Count(sent[s], LAMBDA m : m = DistMsg(st.distances.map[d])) = 1
                     /\ \A p \in cs :
                           Count(sent[s], LAMBDA m : m = CompMsg(st.competitors.map[p[1]].map[p[2]])) = 1

\* a connect has returned after a replay of a state with a distance and two
\* competitors
C5_ReplayedState ==
    \E s \in Subs :
        /\ wpc[s] = "open"
        /\ rstate[s] # None
        /\ Len(sent[s]) = 5

\* C9: in a tick without a usable payload (a status other than 200, an
\* exception, success=false) the cached state stays as it is and no name
\* notice, distance_meta or competitor_update is broadcast.
C9_SkippedTick ==
    [][tick' \in {"non200", "exception", "success_false"} =>
          /\ cache' = cache
          /\ fpc' \in {"sleep", "bcast"}
          /\ \A i \in 1..Len(log') : log'[i] = ErrorMsg
          /\ \A i \in 1..Len(queue') : queue'[i] = ErrorMsg]_vars

\* a success=false tick is broadcasting to a subscriber while a state is
\* cached
C9_ErrorTickOverCachedState ==
    /\ tick = "success_false"
    /\ fpc = "bcast"
    /\ cache # None
    /\ \E s \in Subs : wpc[s] = "open" /\ view[s].name # None

(***************************************************************************)
(* Properties of a cycle of the fetch loop                                 *)
(***************************************************************************)

\* the tick that has just ended ran a cycle: curr and prev are its locals,
\* log the broadcasts it made
CycleEnded == tick = "payload" /\ fpc = "sleep"

IsName(m) == m.type = "event_name"

IsDist(m) == m.type = "distance_meta"

IsComp(m) == m.type = "competitor_update"

\* distance d of state c is new or differs from what state p has for it
DistDiffers(p, c, d) ==
    \/ p = None
    \/ d \notin Members(p.distances.order)
    \/ p.distances.map[d] # c.distances.map[d]

\* competitor k of distance d of state c is new or differs from what state p
\* has for it
CompDiffers(p, c, d, k) ==
    \/ p = None
    \/ d \notin Members(p.competitors.order)
    \/ k \notin Members(p.competitors.map[d].order)
    \/ p.competitors.map[d].map[k] # c.competitors.map[d].map[k]

\* the (distance id, competitor id) pairs of state c
CompIds(c) ==
    UNION {{<<d, k>> : k \in Members(c.competitors.map[d].order)} :
              d \in Members(c.competitors.order)}

\* C6: the broadcasts of a cycle are the name notice first, if the name
\* changed, then the meta of every changed distance, then the entry of every
\* changed competitor: no distance_meta comes after a competitor_update and
\* nothing comes before the name notice.
C6_BroadcastOrder ==
    CycleEnded =>
        /\ \A i \in 1..Len(log) : IsName(log[i]) \/ IsDist(log[i]) \/ IsComp(log[i])
        /\ \A i \in 1..Len(log) : IsName(log[i]) =>
              i = 1 /\ log[i] = NameMsg(curr.name) /\ (prev = None \/ prev.name # curr.name)
        /\ \A i, j \in 1..Len(log) : (IsComp(log[i]) /\ IsDist(log[j])) => j < i
        /\ \A d \in Members(curr.distances.order) :
              DistDiffers(prev, curr, d) =>
                  Count(log, LAMBDA m : m = DistMsg(curr.distances.map[d])) = 1
        /\ \A p \in CompIds(curr) :
              CompDiffers(prev, curr, p[1], p[2]) =>
                  Count(log, LAMBDA m : m = CompMsg(curr.competitors.map[p[1]].map[p[2]])) = 1

\* a cycle has broadcast the name, two distances and competitors of both
C6_NameTwoDistancesCompetitors ==
    /\ CycleEnded
    /\ IsName(log[1])
    /\ Count(log, IsDist) = 2
    /\ \E i, j \in 1..Len(log) :
          IsComp(log[i]) /\ IsComp(log[j]) /\ log[i].data.distance_id # log[j].data.distance_id

\* C10: a cycle broadcasts the name notice exactly when there is no previous
\* published state or the name of the current state differs from the name of
\* the previous published state.
C10_NameNotice ==
    CycleEnded =>
        /\ Count(log, IsName) = IF prev = None \/ prev.name # curr.name THEN 1 ELSE 0
        /\ \A i \in 1..Len(log) : IsName(log[i]) => log[i].data.name = curr.name

\* a cycle over a published state has broadcast changes and no name notice
C10_ChangeWithoutName ==
    /\ CycleEnded
    /\ prev # None
    /\ log # << >>
    /\ Count(log, IsName) = 0

(***************************************************************************)
(* Properties of _diff                                                     *)
(***************************************************************************)

\* C7: the diff holds, once each, the distances of curr that are new or
\* differ from prev and the competitors of curr that are new or differ from
\* prev, and nothing else; it is empty when curr equals prev.
C7_DiffExact ==
    result # None =>
        LET p == args.prev
            c == args.curr
        IN  /\ \A d \in Members(c.distances.order) :
                  Count(result.dist_updates, LAMBDA x : x = c.distances.map[d])
                      = IF DistDiffers(p, c, d) THEN 1 ELSE 0
            /\ Len(result.dist_updates)
                  = Cardinality({d \in Members(c.distances.order) : DistDiffers(p, c, d)})
            /\ \A q \in CompIds(c) :
                  Count(result.comp_updates, LAMBDA x : x = c.competitors.map[q[1]].map[q[2]])
                      = IF CompDiffers(p, c, q[1], q[2]) THEN 1 ELSE 0
            /\ Len(result.comp_updates)
                  = Cardinality({q \in CompIds(c) : CompDiffers(p, c, q[1], q[2])})
            /\ p = c => result.dist_updates = << >> /\ result.comp_updates = << >>

\* a diff against a previous state that holds some of the distances and of
\* the competitors of curr and not the others
C7_PartOfStateChanged ==
    /\ result # None
    /\ args.prev # None
    /\ Len(result.dist_updates) = 1
    /\ Len(args.curr.distances.order) = 2
    /\ Len(result.comp_updates) = 2
    /\ Cardinality(CompIds(args.curr)) = 5

\* competitor q of state c has no recorded time
NoTime(c, q) == c.competitors.map[q[1]].map[q[2]].total_time = << >>

\* competitor q of state c was in state p already
Existed(p, q) ==
    /\ p # None
    /\ q[1] \in Members(p.competitors.order)
    /\ q[2] \in Members(p.competitors.map[q[1]].order)

InDiff(c, q) ==
    \E i \in 1..Len(result.comp_updates) :
        result.comp_updates[i] = c.competitors.map[q[1]].map[q[2]]

\* C8 (as stated): the diff leaves out a competitor without a recorded time
\* whose id was in the previous state, and holds a competitor without a
\* recorded time whose id is new.
C8_NoTimeSuppressed ==
    result # None =>
        \A q \in CompIds(args.curr) :
            NoTime(args.curr, q) =>
                (InDiff(args.curr, q) <=> ~Existed(args.prev, q))

\* C8 (amended): the diff holds a competitor without a recorded time whose
\* id was in the previous state exactly when its entry differs from the
\* previous one, and holds a competitor without a recorded time whose id is
\* new.
C8_NoTimeLikeAnyOther ==
    result # None =>
        \A q \in CompIds(args.curr) :
            NoTime(args.curr, q) =>
                (InDiff(args.curr, q) <=>
                    (~Existed(args.prev, q) \/ CompDiffers(args.prev, args.curr, q[1], q[2])))

\* the diff holds a competitor without a recorded time that the previous
\* state had already, and leaves another such competitor out
C8_NoTimeChangedAndUnchanged ==
    /\ result # None
    /\ \E q \in CompIds(args.curr) :
          NoTime(args.curr, q) /\ Existed(args.prev, q) /\ InDiff(args.curr, q)
    /\ \E q \in CompIds(args.curr) :
          NoTime(args.curr, q) /\ Existed(args.prev, q) /\ ~InDiff(args.curr, q)

(***************************************************************************)
(* Properties of a broadcast to a peer that stops reading                  *)
(***************************************************************************)

\* C11: a broadcast call that has a subscriber of its snapshot whose send
\* never completes still attempts the delivery to every other subscriber of
\* the snapshot and returns, so the fetch loop reaches its sleep again
C11_StalledDoesNotBlock ==
    (fpc = "bcast" /\ \E i \in idx..Len(snap) : stalled[snap[i]]) ~> (fpc = "sleep")

(***************************************************************************)
(* Properties of the cached state                                          *)
(***************************************************************************)

\* C12: there is a reset operation that clears the cached published state:
\* whenever a state is published, an operation of the backend can take the
\* cache back to empty, after which a connect gets the status notice and no
\* replay
C12_ResetClearsCache == cache # None => ENABLED (Next /\ cache' = None)

(***************************************************************************)
(* _process on its own                                                     *)
(***************************************************************************)

\* the most races a distance of a payload under test has
MaxRaces == 3

RaceIds == <<"r1", "r2", "r3", "r4", "r5">>

\* when the riders of a distance end their second lap, in milliseconds: half
\* a second and two and a half seconds apart; two seconds apart at times the
\* binary floating point has no exact value for; two seconds apart at whole
\* seconds
Starts ==
    <<<<10000, 10500, 13000, 13500, 16000>>,
      <<14100, 16100, 12100, 18100, 10100>>,
      <<10000, 12000, 14000, 16000, 18000>>>>

\* race i of k: its heat is h, it has ridden n laps of eight seconds, the
\* second of them ending when p says, and with dup the last race repeats the
\* id of the first
InputRace(i, k, h, n, p, dup) ==
    Race(IF dup /\ i = k THEN RaceIds[1] ELSE RaceIds[i], h, "",
         Laps(Starts[p][i] - 8000, 8000, n))

\* the raw payload under test: k races, race i in heat hs[i] with ns[i] laps
InputPayload(k, title, hs, ns, p, dup) ==
    [name |-> "A", distances |->
        <<[id |-> "d1", name |-> title,
           races |-> [i \in 1..k |-> InputRace(i, k, hs[i], ns[i], p, dup)]]>>]

InitProcess ==
    /\ active = << >>
    /\ cache = None
    /\ broken = [s \in Subs |-> FALSE]
    /\ stalled = [s \in Subs |-> FALSE]
    /\ wpc = [s \in Subs |-> "idle"]
    /\ rstate = [s \in Subs |-> None]
    /\ ridx = [s \in Subs |-> 0]
    /\ sent = [s \in Subs |-> << >>]
    /\ mid = [s \in Subs |-> FALSE]
    /\ view = [s \in Subs |-> EmptyView]
    /\ fpc = "sleep"
    /\ tick = "none"
    /\ curr = None
    /\ prev = None
    /\ queue = << >>
    /\ log = << >>
    /\ start = << >>
    /\ snap = << >>
    /\ idx = 0
    /\ dead = << >>
    /\ got = << >>
    /\ joined = {}
    /\ ret = None
    /\ \E k \in 0..MaxRaces, title \in {TitleMass, Title500}, p \in 1..Len(Starts), dup \in BOOLEAN :
          \E hs \in {f \in [1..k -> 1..MaxRaces] : \A i \in 1..k : f[i] \in {1, i}} :
              \E ns \in [1..k -> 0..(MaxLaps + 1)] :
                  args = [raw |-> InputPayload(k, title, hs, ns, p, dup)]
    /\ result = None
    /\ served = RaceStart
    /\ latest = None

\* curr = _process(raw)
CallProcess ==
    /\ result = None
    /\ ProcessReturns(args.raw)
    /\ result' = Some(Process(args.raw))
    /\ UNCHANGED <<active, cache, broken, stalled, wpc, rstate, ridx, sent, mid, view, fpc,
                   tick, curr, prev, queue, log, start, snap, idx, dead, got, joined, ret, args,
                   served, latest>>

SpecProcess == InitProcess /\ [][CallProcess]_vars

(***************************************************************************)
(* Properties of _process                                                  *)
(***************************************************************************)

\* the raw distance _process was called with, and what it made of it
RawDist == args.raw.distances[1]

OutMeta == result[1].distances.map[RawDist.id]

OutComps == result[1].competitors.map[RawDist.id]

\* C13: the positions of the entries of a distance's competitor map are
\* exactly 1..N, N the number of the entries, for every raw payload
C13_PositionsContiguous ==
    result # None =>
        {OutComps.map[c].position : c \in DOMAIN OutComps.map}
            = 1..Cardinality(DOMAIN OutComps.map)

\* the entries of the distance's competitor map
OutEntries == {OutComps.map[c] : c \in DOMAIN OutComps.map}

HasTime(r) == r.total_time # << >>

\* the total time of a is not greater than that of b, no time being the
\* greatest
TimeNotGreater(a, b) ==
    \/ ~HasTime(b)
    \/ HasTime(a) /\ ParseSeconds(a.total_time) <= ParseSeconds(b.total_time)

\* C14: of two competitors of a distance the one with the smaller position
\* has more laps, or as many laps and a total time that is not greater; and
\* a competitor without a recorded time stands after every one with a time
C14_RankedByLapsThenTime ==
    result # None =>
        \A a \in OutEntries : \A b \in OutEntries :
            a.position < b.position =>
                /\ \/ a.laps_count > b.laps_count
                   \/ a.laps_count = b.laps_count /\ TimeNotGreater(a, b)
                /\ ~(~HasTime(a) /\ HasTime(b))

\* two riders with as many laps and different times, and one without a time
C14_RankedThree ==
    /\ result # None
    /\ \E a \in OutEntries : \E b \in OutEntries : \E c \in OutEntries :
          /\ a.position < b.position /\ b.position < c.position
          /\ a.laps_count = b.laps_count
          /\ HasTime(a) /\ HasTime(b) /\ a.total_time # b.total_time
          /\ ~HasTime(c)
          /\ Len(RawDist.races) = 3
          /\ RawDist.races[1].id = b.id

\* how often the id x is listed in the groups gs
Listings(gs, x) ==
    Cardinality({p \in (1..Len(gs)) \X (1..MaxRaces + 1) :
                    p[2] <= Len(gs[p[1]].race_ids) /\ gs[p[1]].race_ids[p[2]] = x})

\* the laps of a raw race that count: all but the warmup lap of a mass start
CountedOf(race) ==
    IF OutMeta.is_mass_start /\ Len(race.laps) > 0 THEN Len(race.laps) - 1 ELSE Len(race.laps)

\* the title of the mass start gives a number of laps other than zero
LapsKnown == OutMeta.total_laps # None /\ OutMeta.total_laps # Some(0)

\* the raw races with the id x
RacesOfId(x) == {i \in 1..Len(RawDist.races) : RawDist.races[i].id = x}

\* the raw races with the id x that have a recorded time and have not finished
RacesUnderWay(x) ==
    {i \in RacesOfId(x) : /\ CountedOf(RawDist.races[i]) >= 1
                          /\ CountedOf(RawDist.races[i]) < OutMeta.total_laps[1]}

RawHeats == [i \in 1..Len(RawDist.races) |-> RawDist.races[i].heat]

\* C16: a distance is classified mass-start exactly when it has more than
\* two races and any two of them have the same heat; so two races are never
\* a mass start and three races in three heats are not
C16_MassStartClassification ==
    result # None =>
        /\ OutMeta.is_mass_start
              = (/\ Len(RawHeats) > 2
                 /\ \A i \in 1..Len(RawHeats) : \A j \in 1..Len(RawHeats) :
                       RawHeats[i] = RawHeats[j])
        /\ Len(RawHeats) = 2 => ~OutMeta.is_mass_start
        /\ RawHeats = <<1, 1, 1>> => OutMeta.is_mass_start
        /\ RawHeats = <<1, 2, 3>> => ~OutMeta.is_mass_start

\* three races in three heats, processed as a lane race
C16_ThreeHeats ==
    /\ result # None
    /\ RawHeats = <<1, 2, 3>>
    /\ ~OutMeta.is_mass_start
    /\ Len(OutMeta.heat_groups) = 3

\* the entry at position p, and the positions of the riders that have a
\* recorded time and no finished_rank
EntryAt(p) == CHOOSE c \in OutEntries : c.position = p

UnderWay ==
    {p \in 1..Cardinality(OutEntries) :
        EntryAt(p).finished_rank = None /\ HasTime(EntryAt(p))}

DistinctIds ==
    Cardinality({RawDist.races[i].id : i \in 1..Len(RawDist.races)}) = Len(RawDist.races)

\* the decimal times of a and b are at most two seconds apart
AtMostTwoSeconds(a, b) ==
    /\ ParseSeconds(a.total_time) - ParseSeconds(b.total_time) <= 2000
    /\ ParseSeconds(b.total_time) - ParseSeconds(a.total_time) <= 2000

\* C17: of the mass-start riders with a recorded time and no finished_rank,
\* taken in ranked order, two neighbours are in one standings group exactly
\* when they have the same lap count and times at most 2.0 seconds apart
\* (so 10.0 s, 10.5 s and 13.0 s on one lap are a group of two and a group
\* of one); the groups are numbered 1..G in order and only group G is
\* flagged last
C17_GroupsByLapAndGap ==
    (result # None /\ OutMeta.is_mass_start /\ LapsKnown /\ DistinctIds) =>
        /\ \A p \in UnderWay : \A q \in UnderWay :
              (p < q /\ \A r \in UnderWay : ~(p < r /\ r < q)) =>
                  ((EntryAt(p).group_number = EntryAt(q).group_number)
                      <=> (/\ EntryAt(p).laps_count = EntryAt(q).laps_count
                           /\ AtMostTwoSeconds(EntryAt(p), EntryAt(q))))
        /\ \A g \in 1..Len(OutMeta.standings_groups) :
              /\ OutMeta.standings_groups[g].group_number = g
              /\ OutMeta.standings_groups[g].is_last_group
                    = (g = Len(OutMeta.standings_groups))

(***************************************************************************)
(* _format_time on its own                                                 *)
(***************************************************************************)

MaxGroups == 3

\* the colon-separated groups of the inputs
InputGroups == {<<"0">>, <<"0", "0">>, <<"0", "1">>, <<"0", "2">>, <<"1", "0">>}

\* the digits after the dot of the inputs
InputDecimals ==
    {<<"0">>, <<"5">>, <<"0", "0", "0">>, <<"0", "0", "0", "1">>,
     <<"5", "0", "0", "0", "0", "0", "0">>}

\* the empty string and the times of one to MaxGroups groups, with and
\* without a fractional part
TimeStrings ==
    {<< >>} \cup
    UNION {{Join(gs, ":") \o tail : gs \in [1..k -> InputGroups],
                                      tail \in {<< >>} \cup {<<".">> \o d : d \in InputDecimals}}
              : k \in 1..MaxGroups}

InitFormat ==
    /\ active = << >>
    /\ cache = None
    /\ broken = [s \in Subs |-> FALSE]
    /\ stalled = [s \in Subs |-> FALSE]
    /\ wpc = [s \in Subs |-> "idle"]
    /\ rstate = [s \in Subs |-> None]
    /\ ridx = [s \in Subs |-> 0]
    /\ sent = [s \in Subs |-> << >>]
    /\ mid = [s \in Subs |-> FALSE]
    /\ view = [s \in Subs |-> EmptyView]
    /\ fpc = "sleep"
    /\ tick = "none"
    /\ curr = None
    /\ prev = None
    /\ queue = << >>
    /\ log = << >>
    /\ start = << >>
    /\ snap = << >>
    /\ idx = 0
    /\ dead = << >>
    /\ got = << >>
    /\ joined = {}
    /\ ret = None
    /\ args \in [t : TimeStrings]
    /\ result = None
    /\ served = RaceStart
    /\ latest = None

\* formatted = _format_time(t)
CallFormat ==
    /\ result = None
    /\ result' = Some(FormatTime(args.t))
    /\ UNCHANGED <<active, cache, broken, stalled, wpc, rstate, ridx, sent, mid, view, fpc,
                   tick, curr, prev, queue, log, start, snap, idx, dead, got, joined, ret, args,
                   served, latest>>

SpecFormat == InitFormat /\ [][CallFormat]_vars

(***************************************************************************)
(* Properties of _format_time                                              *)
(***************************************************************************)

AllZeros(s) == \A i \in 1..Len(s) : s[i] = "0"

\* the text before the dot of s, all of s when it has none
BeforeDot(s) == IF Find(s, ".") = 0 THEN s ELSE SubSeq(s, 1, Find(s, ".") - 1)

\* the text after the dot of s
AfterDot(s) == SubSeq(s, Find(s, ".") + 1, Len(s))

\* at most the first three characters of s
FirstThree(s) == SubSeq(s, 1, IF Len(s) < 3 THEN Len(s) ELSE 3)

\* the groups of t before the last one that are all zero and have only
\* all-zero groups before them
LeadingZeroGroups(t) ==
    {i \in 1..(Len(Split(t, ":")) - 1) : \A j \in 1..i : AllZeros(Split(t, ":")[j])}

\* every group of t is zero, the last one on both sides of its dot
EveryGroupZero(t) ==
    /\ t # << >>
    /\ \A i \in 1..Len(Split(t, ":")) : AllZeros(BeforeDot(Split(t, ":")[i]))
    /\ Find(t, ".") # 0 => AllZeros(AfterDot(t))

Formatted == result[1]

\* the leading all-zero groups are gone: the output has that many groups
\* fewer, and more than one only when its first is not zero
StripsLeadingZeroGroups ==
    args.t # << >> =>
        /\ Len(Split(Formatted, ":"))
              = Len(Split(args.t, ":")) - Cardinality(LeadingZeroGroups(args.t))
        /\ Len(Split(Formatted, ":")) > 1 => ~AllZeros(Split(Formatted, ":")[1])

\* the sub-second part is cut to three digits
TruncatesDecimals ==
    IF Find(args.t, ".") = 0
    THEN Find(Formatted, ".") = 0
    ELSE /\ Find(Formatted, ".") # 0
         /\ AfterDot(Formatted) = FirstThree(AfterDot(args.t))

FormatsExample ==
    args.t = <<"0", "0", ":", "0", "1", ":", "0", "2", ".", "5", "0", "0", "0", "0", "0", "0">>
        => Formatted = <<"1", ":", "0", "2", ".", "5", "0", "0">>

\* C18 as stated: the formatter strips every leading all-zero group, cuts
\* the sub-second part to three digits, returns "0" for every input whose
\* groups are all zero, with or without a fractional part, returns "" for
\* "", and formats "00:01:02.5000000" to "1:02.500"
C18_FormatCollapsesToZero ==
    result # None =>
        /\ StripsLeadingZeroGroups
        /\ TruncatesDecimals
        /\ EveryGroupZero(args.t) => Formatted = <<"0">>
        /\ args.t = << >> => Formatted = << >>
        /\ FormatsExample

\* C18 amended: as above, but an input whose groups are all zero gives "0"
\* only without a fractional part; with one it gives "0." and the first
\* three fractional digits
C18_FormatKeepsDecimals ==
    result # None =>
        /\ StripsLeadingZeroGroups
        /\ TruncatesDecimals
        /\ EveryGroupZero(args.t) =>
              Formatted = IF Find(args.t, ".") = 0 THEN <<"0">>
                          ELSE <<"0", ".">> \o FirstThree(AfterDot(args.t))
        /\ args.t = << >> => Formatted = << >>
        /\ FormatsExample

\* three zero groups and three zero fractional digits
C18_ZeroWithDecimals ==
    /\ result # None
    /\ args.t = <<"0", "0", ":", "0", "0", ":", "0", "0", ".", "0", "0", "0">>
    /\ Formatted = <<"0", ".", "0", "0", "0">>

(***************************************************************************)
(* Properties of disconnect                                                *)
(***************************************************************************)

\* a and b, both in q and in r, stand in the same order in q and in r
SameOrder(q, r, a, b) == (Find(q, a) < Find(q, b)) <=> (Find(r, a) < Find(r, b))

\* r is q with s taken out where it was and nothing else touched
OnlyRemoved(q, r, s) ==
    /\ Members(r) = Members(q) \ {s}
    /\ Len(r) = Len(q) - (IF s \in Members(q) THEN 1 ELSE 0)
    /\ \A a \in Members(r) : \A b \in Members(r) : SameOrder(q, r, a, b)

\* C19: disconnect(ws) takes ws out of the registry when it is registered
\* and changes nothing when it is not; a second call leaves the registry
\* of the first call; every other subscriber stays, in its place
C19_DisconnectOnlyThat ==
    [][\A s \in Subs : EndpointDisconnect(s) =>
          /\ OnlyRemoved(active, active', s)
          /\ s \notin Members(active) => active' = active
          /\ Disconnect(active', s) = active']_vars

\* the endpoint of the second of three registered websockets has called
\* disconnect
C19_MiddleOfThreeGone ==
    /\ wpc[2] = "closed"
    /\ active = <<1, 3>>

(***************************************************************************)
(* Properties of the finish ranks over the cycles                          *)
(***************************************************************************)

\* the competitor map of the mass start in a published state
RaceComps(state) == state.competitors.map["d2"].map

\* C20: while the riders only gain laps, a competitor that has
\* finished_rank k in a published state has finished_rank k in every later
\* published state
C20_FinishedRankKept ==
    [][(cache # None /\ cache' # None) =>
          \A c \in DOMAIN RaceComps(cache) :
              RaceComps(cache)[c].finished_rank # None =>
                  RaceComps(cache')[c].finished_rank = RaceComps(cache)[c].finished_rank]_vars

(***************************************************************************)
(* Properties of a payload with missing fields                             *)
(***************************************************************************)

\* C21: a payload that misses an expected field (a race without laps, lane
\* or heat, a distance without races or event number) or whose distance
\* name gives no metadata never aborts the cycle: _process returns, and the
\* tick goes on to publish its state
C21_MissingFieldNeverAborts == tick # "exception"

(***************************************************************************)
(* Properties of the order of a diff                                       *)
(***************************************************************************)

\* the ids of the races of distance dist_id in the order of the payload
ArrivalOrder(dist_id) ==
    IF dist_id = "d1"
    THEN [i \in 1..Len(LaneDist(0, 0).races) |-> LaneDist(0, 0).races[i].id]
    ELSE [i \in 1..Len(MassDist(0).races) |-> MassDist(0).races[i].id]

\* the distance updates follow the distance order of curr
DistUpdatesInStateOrder ==
    \A i \in 1..Len(result.dist_updates) : \A j \in (i + 1)..Len(result.dist_updates) :
        Find(args.curr.distances.order, result.dist_updates[i].id)
            < Find(args.curr.distances.order, result.dist_updates[j].id)

\* the competitor updates follow the distance order of curr
CompUpdatesByDistance ==
    \A i \in 1..Len(result.comp_updates) : \A j \in (i + 1)..Len(result.comp_updates) :
        Find(args.curr.distances.order, result.comp_updates[i].distance_id)
            <= Find(args.curr.distances.order, result.comp_updates[j].distance_id)

\* C22 as stated: the competitor updates follow the distance order of the
\* current state and, within a distance, the order of its races in the raw
\* payload; the distance updates follow the distance order of the current
\* state
C22_UpdatesInArrivalOrder ==
    result # None =>
        /\ DistUpdatesInStateOrder
        /\ CompUpdatesByDistance
        /\ \A i \in 1..Len(result.comp_updates) : \A j \in (i + 1)..Len(result.comp_updates) :
              result.comp_updates[i].distance_id = result.comp_updates[j].distance_id =>
                  Find(ArrivalOrder(result.comp_updates[i].distance_id), result.comp_updates[i].id)
                      < Find(ArrivalOrder(result.comp_updates[j].distance_id), result.comp_updates[j].id)

\* C22 amended: within a distance the competitor updates follow the order
\* of the current state's competitor map, which is the ranked order
\* (ascending position), not the order of the races in the raw payload
C22_UpdatesInRankedOrder ==
    result # None =>
        /\ DistUpdatesInStateOrder
        /\ CompUpdatesByDistance
        /\ \A i \in 1..Len(result.comp_updates) : \A j \in (i + 1)..Len(result.comp_updates) :
              result.comp_updates[i].distance_id = result.comp_updates[j].distance_id =>
                  /\ Find(args.curr.competitors.map[result.comp_updates[i].distance_id].order,
                          result.comp_updates[i].id)
                        < Find(args.curr.competitors.map[result.comp_updates[j].distance_id].order,
                               result.comp_updates[j].id)
                  /\ result.comp_updates[i].position < result.comp_updates[j].position

\* both distances changed, and in the first the second race of the payload
\* is reported before the first
C22_SecondRaceFirst ==
    /\ result # None
    /\ Len(result.dist_updates) = 2
    /\ Len(result.comp_updates) = 5
    /\ result.comp_updates[1].id = "r2"
    /\ result.comp_updates[2].id = "r1"

(***************************************************************************)
(* Properties of the heat groups                                           *)
(***************************************************************************)

OutHeats == OutMeta.heat_groups

\* C23: the heat groups of a lane distance partition its competitors by
\* heat number (every competitor is listed once, in the group of its heat),
\* each group lists its competitors by ascending position, and the groups
\* come by ascending heat number; a distance without races has no
\* competitors and no groups
C23_HeatGroupsPartition ==
    (result # None /\ ~OutMeta.is_mass_start) =>
        /\ \A c \in OutEntries : Listings(OutHeats, c.id) = 1
        /\ \A g \in 1..Len(OutHeats) :
              /\ OutHeats[g].race_ids # << >>
              /\ \A k \in 1..Len(OutHeats[g].race_ids) :
                    /\ OutHeats[g].race_ids[k] \in DOMAIN OutComps.map
                    /\ OutComps.map[OutHeats[g].race_ids[k]].heat = OutHeats[g].heat
              /\ \A k \in 1..(Len(OutHeats[g].race_ids) - 1) :
                    OutComps.map[OutHeats[g].race_ids[k]].position
                        < OutComps.map[OutHeats[g].race_ids[k + 1]].position
        /\ \A g \in 1..(Len(OutHeats) - 1) : OutHeats[g].heat < OutHeats[g + 1].heat
        /\ RawDist.races = << >> => OutEntries = {} /\ OutHeats = << >>

(***************************************************************************)
(* Properties of a subscriber whose connect overlaps no cycle              *)
(***************************************************************************)

\* C24: when no connect overlaps a cycle, a subscriber whose connect has
\* returned and whose deliveries all succeeded has, whenever the loop sleeps
\* between two ticks, a view that equals the cached state on every id of
\* that state, and an empty view while nothing is cached
C24_SettledViewMatches ==
    \A s \in Subs :
        (wpc[s] = "open" /\ ~broken[s] /\ fpc = "sleep") =>
            IF cache = None THEN view[s] = EmptyView ELSE ViewMatches(view[s], cache)

\* a cycle that changed the cached state has ended, and a subscriber that
\* was registered before it received its updates
C24_SubscriberFollowedCycle ==
    /\ CycleEnded
    /\ prev # None
    /\ Len(log) >= 2
    /\ \E s \in Subs : wpc[s] = "open" /\ ~broken[s] /\ ViewMatches(view[s], cache)

(***************************************************************************)
(* Properties of a removal                                                 *)
(***************************************************************************)

\* the message m carries a distance or a competitor that state st has
CarriesIdOf(m, st) ==
    /\ IsDist(m) => m.data.id \in Members(st.distances.order)
    /\ IsComp(m) => <<m.data.distance_id, m.data.id>> \in CompIds(st)

\* state p has a distance or a competitor that state c has not
SomeRemoved(p, c) ==
    \/ \E d \in Members(p.distances.order) : d \notin Members(c.distances.order)
    \/ \E q \in CompIds(p) : q \notin CompIds(c)

\* what state c has, state p has with the same value
NothingElseChanged(p, c) ==
    /\ p.name = c.name
    /\ \A d \in Members(c.distances.order) : ~DistDiffers(p, c, d)
    /\ \A q \in CompIds(c) : ~CompDiffers(p, c, q[1], q[2])

\* C25: the broadcasts of a cycle carry no distance and no competitor that
\* the current state has not; a cycle whose only change is the removal of
\* distances or competitors replaces the cached state and broadcasts
\* nothing; a websocket that connects afterwards is replayed the cached
\* state, without what was removed
C25_RemovalIsSilent ==
    /\ CycleEnded =>
          /\ \A i \in 1..Len(log) : CarriesIdOf(log[i], curr)
          /\ (prev # None /\ SomeRemoved(prev, curr) /\ NothingElseChanged(prev, curr)) =>
                cache = curr /\ log = << >>
    /\ \A s \in Subs :
          (wpc[s] \in {"replay", "open"} /\ cache # None) =>
              \A i \in 2..Len(sent[s]) : CarriesIdOf(sent[s][i], cache)

\* a cycle that only removed the second distance has ended; the websocket
\* that was connected before still shows that distance
C25_SecondDistanceGone ==
    /\ CycleEnded
    /\ prev # None
    /\ SomeRemoved(prev, curr)
    /\ NothingElseChanged(prev, curr)
    /\ log = << >>
    /\ \E s \in Subs : wpc[s] = "open" /\ ~broken[s] /\ "d2" \in DOMAIN view[s].distances

(***************************************************************************)
(* Properties of a connect that fails                                      *)
(***************************************************************************)

\* the broadcast in flight returns in this step, and its delivery to s failed
ReturnsWithFailed(s) ==
    /\ fpc = "bcast"
    /\ idx = Len(snap)
    /\ InSeq(s, dead) \/ (snap[idx] = s /\ SendFails(s))

\* C26: a websocket leaves the registry only in a disconnect of its
\* endpoint or at the return of a broadcast whose delivery to it failed; a
\* connect whose status or replay send fails leaves the websocket
\* registered, and from then on only such a broadcast removes it
C26_RemovedOnlyByDisconnectOrBroadcast ==
    [][\A s \in Subs :
          /\ (InSeq(s, active) /\ ~InSeq(s, active')) =>
                \/ wpc[s] = "open" /\ wpc'[s] = "closed"
                \/ ReturnsWithFailed(s)
          /\ (Connecting(s) /\ wpc'[s] = "failed") => active' = active
          /\ (wpc[s] = "failed" /\ InSeq(s, active)) =>
                /\ wpc'[s] = "failed"
                /\ InSeq(s, active') \/ ReturnsWithFailed(s)]_vars

\* the connect of a websocket has failed in its replay, the loop sleeps and
\* the websocket is registered
C26_FailedInReplayRegistered ==
    \E s \in Subs :
        /\ wpc[s] = "failed"
        /\ Len(sent[s]) >= 2
        /\ InSeq(s, active)
        /\ fpc = "sleep"

(***************************************************************************)
(* Properties of the finish ranks of one state                             *)
(***************************************************************************)

\* the competitors of the distance that have a finished_rank
Finished == {c \in OutEntries : c.finished_rank # None}

BetweenSets == fpc \notin {"get", "set"}

\* the tick has called broadcast, or a broadcast of it is in flight
Broadcasting == tick = "payload" /\ (fpc = "bcast" \/ log # << >>)

\* C28: outside the two awaits between _process and cache.set the cache is
\* absent as long as no payload was processed, and otherwise equal to what
\* _process returned for the last payload it processed; the cache changes
\* only in the cache.set of a cycle whose state differs from the cached
\* one, to the whole of that state, and before the cycle calls broadcast
C28_CacheIsLatestState ==
    /\ [](BetweenSets => IF latest = None THEN cache = None
                         ELSE cache # None /\ StateEq(cache, latest))
    /\ [](Broadcasting => cache = curr)
    /\ [][cache' # cache =>
            /\ fpc = "set" /\ tick = "payload"
            /\ ~StateEq(curr, cache)
            /\ log = << >>
            /\ cache' = curr /\ curr = latest]_vars

\* a later cycle has replaced the state of an earlier one and broadcast
C28_CacheReplaced ==
    /\ fpc = "sleep" /\ tick = "payload"
    /\ prev # None /\ ~StateEq(prev, curr)
    /\ log # << >>
    /\ cache = curr

====
